---- MODULE Spec2Model ----
(***************************************************************************)
(* State-machine model of Urho3D's AttributeAnimation                      *)
(* (Source/Engine/Scene/AttributeAnimation.cpp): an ordered keyframe       *)
(* track, an ordered event track, linear / cubic-Hermite sampling and the  *)
(* lazily rebuilt spline tangent cache.                                    *)
(*                                                                         *)
(* Conventions.  Vector indices are 0-based as in the C++ code (At).       *)
(* A float is an extended rational <<n, d>> with d >= 0 in lowest terms;   *)
(* d = 0 encodes the IEEE results of a division by zero (<<1,0>> = +inf,   *)
(* <<-1,0>> = -inf, <<0,0>> = NaN).  Rounding of binary floats is not      *)
(* modelled.  A Variant is [type, v] with v the tuple of its components.   *)
(***************************************************************************)
EXTENDS Integers, Sequences, FiniteSets, TLC

(* ------------------------------ bounds -------------------------------- *)
MaxKeys == 3          \* keyframes a track may hold
MaxTime == 2          \* keyframe and query times are 0..MaxTime
MaxVal == 1           \* float payloads are 0..MaxVal
MaxEvents == 3        \* event frames in the insertion-only specification
MaxEventTime == 1     \* event times are 0..MaxEventTime
MaxCurveEvents == 1   \* event frames in the full specification
MaxXMLKeys == 2       \* keyframes a track may hold in the persistence specification
MaxRaceKeys == 3      \* keyframes a track may hold in the stepwise specification
MaxRaceTime == 1      \* keyframe and query times are 0..MaxRaceTime in the stepwise specification
MaxOverlaps == 1      \* times an edit and a sample may overlap in the stepwise specification

(* M_INFINITY stands above every time of the model. *)
M_INFINITY == 1000000

(* ------------------------ float arithmetic ---------------------------- *)
Abs(n) == IF n < 0 THEN -n ELSE n

Sign(n) == IF n < 0 THEN -1 ELSE IF n > 0 THEN 1 ELSE 0

RECURSIVE Gcd(_, _)
Gcd(a, b) == IF b = 0 THEN a ELSE Gcd(b, a % b)

(* n / d for integers n and d >= 0, in lowest terms; x/0 is +-inf or NaN *)
Frac(n, d) ==
  IF d = 0 THEN <<Sign(n), 0>>
  ELSE LET g == Gcd(Abs(n), d) IN <<Sign(n) * (Abs(n) \div g), d \div g>>

(* a general quotient of two integers *)
Quot(n, d) == IF d < 0 THEN Frac(-n, -d) ELSE Frac(n, d)

FInt(n) == <<n, 1>>

FMul(a, b) == Frac(a[1] * b[1], a[2] * b[2])

FAdd(a, b) ==
  IF a[2] = 0 /\ b[2] = 0
  THEN (IF a[1] = b[1] THEN a ELSE <<0, 0>>)
  ELSE Frac(a[1] * b[2] + b[1] * a[2], a[2] * b[2])

FSub(a, b) == FAdd(a, <<-b[1], b[2]>>)

IsFinite(a) == a[2] # 0

(* (int) cast of a finite float: truncation toward zero *)
Trunc(a) == Sign(a[1]) * (Abs(a[1]) \div a[2])

(* ----------------------------- Variant -------------------------------- *)
VAR_NONE == "VAR_NONE"
VAR_FLOAT == "VAR_FLOAT"
VAR_VECTOR2 == "VAR_VECTOR2"
VAR_VECTOR3 == "VAR_VECTOR3"
VAR_VECTOR4 == "VAR_VECTOR4"
VAR_QUATERNION == "VAR_QUATERNION"
VAR_COLOR == "VAR_COLOR"
VAR_INTRECT == "VAR_INTRECT"
VAR_INTVECTOR2 == "VAR_INTVECTOR2"

VariantTypes ==
  {VAR_NONE, VAR_FLOAT, VAR_VECTOR2, VAR_VECTOR3, VAR_VECTOR4,
   VAR_QUATERNION, VAR_COLOR, VAR_INTRECT, VAR_INTVECTOR2}

IM_LINEAR == "IM_LINEAR"
IM_SPLINE == "IM_SPLINE"

Methods == {IM_LINEAR, IM_SPLINE}

(* number of components of a Variant of the given type *)
Dim(type) ==
  CASE type = VAR_NONE -> 0
    [] type = VAR_FLOAT -> 1
    [] type = VAR_VECTOR2 -> 2
    [] type = VAR_VECTOR3 -> 3
    [] type = VAR_VECTOR4 -> 4
    [] type = VAR_QUATERNION -> 4
    [] type = VAR_COLOR -> 4
    [] type = VAR_INTRECT -> 4
    [] type = VAR_INTVECTOR2 -> 2

EMPTY == [type |-> VAR_NONE, v |-> <<>>]

(* the Variant of a type whose i-th component is p * i *)
MakeVariant(type, p) == [type |-> type, v |-> [i \in 1..Dim(type) |-> FInt(p * i)]]

(* component-wise helpers on component tuples of equal length *)
VScale(a, s) == [i \in 1..Len(a) |-> FMul(a[i], s)]

VAdd(a, b) == [i \in 1..Len(a) |-> FAdd(a[i], b[i])]

(* --------------------------- Vector<T> -------------------------------- *)
At(s, i) == s[i + 1]

Back(s) == s[Len(s)]

(* Vector::Insert(pos, value), pos 0-based *)
InsertAt(s, pos, e) == SubSeq(s, 1, pos) \o <<e>> \o SubSeq(s, pos + 1, Len(s))

SetMin(S) == CHOOSE x \in S : \A y \in S : x <= y

Min(a, b) == IF a < b THEN a ELSE b

Max(a, b) == IF a > b THEN a ELSE b

(* ------------------------------ state --------------------------------- *)
VARIABLES
  interpolationMethod_,   \* IM_LINEAR or IM_SPLINE
  valueType_,             \* VariantType of the track
  isInterpolatable_,      \* whether the type has interpolation arithmetic
  beginTime_,             \* minimum keyframe time, M_INFINITY when empty
  endTime_,               \* maximum keyframe time, -M_INFINITY when empty
  splineTension_,         \* float
  splineTangentsDirty_,   \* tangent cache needs a rebuild
  keyFrames_,             \* Vector<AttributeKeyFrame>
  eventFrames_,           \* Vector<AttributeEventFrame>
  splineTangents_,        \* Vector<Variant>
  lastCall,               \* the most recent public call and what it returned
  saved,                  \* the element written by the last SaveXML, and its curve
  sampler,                \* position and locals of a sample that runs step by step
  editor,                 \* position of an editing call that runs step by step
  capacity                \* keyFrames_.Capacity(), followed in the stepwise steps

objVars ==
  <<interpolationMethod_, valueType_, isInterpolatable_, beginTime_, endTime_,
    splineTension_, splineTangentsDirty_, keyFrames_, eventFrames_, splineTangents_>>

vars == <<objVars, lastCall, saved, sampler, editor, capacity>>

(* the object as a record, so that one method can call another *)
Self ==
  [interpolationMethod_ |-> interpolationMethod_,
   valueType_ |-> valueType_,
   isInterpolatable_ |-> isInterpolatable_,
   beginTime_ |-> beginTime_,
   endTime_ |-> endTime_,
   splineTension_ |-> splineTension_,
   splineTangentsDirty_ |-> splineTangentsDirty_,
   keyFrames_ |-> keyFrames_,
   eventFrames_ |-> eventFrames_,
   splineTangents_ |-> splineTangents_]

Assign(o) ==
  /\ interpolationMethod_' = o.interpolationMethod_
  /\ valueType_' = o.valueType_
  /\ isInterpolatable_' = o.isInterpolatable_
  /\ beginTime_' = o.beginTime_
  /\ endTime_' = o.endTime_
  /\ splineTension_' = o.splineTension_
  /\ splineTangentsDirty_' = o.splineTangentsDirty_
  /\ keyFrames_' = o.keyFrames_
  /\ eventFrames_' = o.eventFrames_
  /\ splineTangents_' = o.splineTangents_

(* the object right after the constructor *)
Constructed ==
  [interpolationMethod_ |-> IM_LINEAR,
   valueType_ |-> VAR_NONE,
   isInterpolatable_ |-> FALSE,
   beginTime_ |-> M_INFINITY,
   endTime_ |-> -M_INFINITY,
   splineTension_ |-> <<1, 2>>,
   splineTangentsDirty_ |-> FALSE,
   keyFrames_ |-> <<>>,
   eventFrames_ |-> <<>>,
   splineTangents_ |-> <<>>]

(* record of a public call: op, the method asked of SetInterpolationMethod *)
(* or taken by a stepwise sample ("" for the other calls), its time        *)
(* argument (0 when it has none), the                                      *)
(* bool it returned (TRUE for void methods), the Variant handed to the     *)
(* sink by a sample, whether LOGERROR ran, whether a vector was indexed    *)
(* outside its size, whether such a read ended the process, and the number *)
(* of keyframes when it was entered                                        *)
Call(op, arg, time, ok, value, logged, outOfRange) ==
  [op |-> op, arg |-> arg, time |-> time, ok |-> ok, value |-> value,
   logged |-> logged, outOfRange |-> outOfRange, crashed |-> FALSE,
   sizeBefore |-> Len(keyFrames_)]

(* ---------------------------- SetValueType ---------------------------- *)
IsIntegerType(type) == (type = VAR_INTRECT) \/ (type = VAR_INTVECTOR2)

IsBlendType(type) ==
  (type = VAR_FLOAT) \/ (type = VAR_VECTOR2) \/ (type = VAR_VECTOR3) \/
  (type = VAR_VECTOR4) \/ (type = VAR_QUATERNION) \/ (type = VAR_COLOR)

(* variant: a type change also empties the tangent cache and marks it dirty *)
DoSetValueType_ClearsTangents(o, valueType) ==
  IF valueType = o.valueType_ THEN o
  ELSE [o EXCEPT
          !.valueType_ = valueType,
          !.isInterpolatable_ = IsBlendType(valueType) \/ IsIntegerType(valueType),
          !.interpolationMethod_ =
             IF IsIntegerType(valueType) THEN IM_LINEAR ELSE o.interpolationMethod_,
          !.keyFrames_ = <<>>,
          !.beginTime_ = M_INFINITY,
          !.endTime_ = -M_INFINITY,
          !.splineTangents_ = <<>>,
          !.splineTangentsDirty_ = TRUE]

(* variant: a type change clears the keyframes but forgets the time bounds *)
DoSetValueType_NoBoundsReset(o, valueType) ==
  IF valueType = o.valueType_ THEN o
  ELSE [o EXCEPT
          !.valueType_ = valueType,
          !.isInterpolatable_ = IsBlendType(valueType) \/ IsIntegerType(valueType),
          !.interpolationMethod_ =
             IF IsIntegerType(valueType) THEN IM_LINEAR ELSE o.interpolationMethod_,
          !.keyFrames_ = <<>>]

DoSetValueType(o, valueType) ==
  IF valueType = o.valueType_ THEN o
  ELSE [o EXCEPT
          !.valueType_ = valueType,
          !.isInterpolatable_ = IsBlendType(valueType) \/ IsIntegerType(valueType),
          !.interpolationMethod_ =
             IF IsIntegerType(valueType) THEN IM_LINEAR ELSE o.interpolationMethod_,
          !.keyFrames_ = <<>>,
          !.beginTime_ = M_INFINITY,
          !.endTime_ = -M_INFINITY]

(* ----------------------- SetInterpolationMethod ----------------------- *)
(* variant: the override of lines 162-163 is missing *)
DoSetInterpolationMethod_NoForce(o, method) ==
  IF method = o.interpolationMethod_ THEN o
  ELSE [o EXCEPT !.interpolationMethod_ = method, !.splineTangentsDirty_ = TRUE]

DoSetInterpolationMethod(o, method) ==
  IF method = o.interpolationMethod_ THEN o
  ELSE [o EXCEPT
          !.interpolationMethod_ =
             IF IsIntegerType(o.valueType_) THEN IM_LINEAR ELSE method,
          !.splineTangentsDirty_ = TRUE]

(* -------------------------- SetSplineTension -------------------------- *)
(* variant: line 172 is missing, a tension change does not mark the cache *)
DoSetSplineTension_NoDirty(o, tension) == [o EXCEPT !.splineTension_ = tension]

DoSetSplineTension(o, tension) ==
  [o EXCEPT !.splineTension_ = tension, !.splineTangentsDirty_ = TRUE]

(* ----------------------------- SetKeyFrame ---------------------------- *)
(* variant: every keyframe is pushed at the back, the ordered insert is    *)
(* forgotten                                                               *)
InsertKeyFrame_AlwaysPush(frames, keyFrame) == Append(frames, keyFrame)

(* variant: the scan stops at the first entry with time <= the new time's  *)
(* successor, i.e. compares with <= instead of <                           *)
InsertKeyFrame_ScanLessEqual(frames, keyFrame) ==
  IF frames = <<>> \/ keyFrame.time_ > Back(frames).time_
  THEN Append(frames, keyFrame)
  ELSE LET found == {i \in 0..(Len(frames) - 1) : keyFrame.time_ <= At(frames, i).time_}
       IN IF found = {} THEN frames ELSE InsertAt(frames, SetMin(found), keyFrame)

(* lines 189-201: push at the back when time >= the last time, else        *)
(* insert before the first entry with a strictly greater time             *)
InsertKeyFrame(frames, keyFrame) ==
  IF frames = <<>> \/ keyFrame.time_ >= Back(frames).time_
  THEN Append(frames, keyFrame)
  ELSE LET found == {i \in 0..(Len(frames) - 1) : keyFrame.time_ < At(frames, i).time_}
       IN IF found = {} THEN frames ELSE InsertAt(frames, SetMin(found), keyFrame)

(* variant: the type check of line 179 is missing *)
KeyFrameAccepted_NoTypeCheck(o, value) == TRUE

(* lines 177-180: the return value of SetKeyFrame *)
KeyFrameAccepted(o, value) == o.valueType_ = VAR_NONE \/ value.type = o.valueType_

(* variant: line 182 is missing, beginTime_ is never lowered *)
DoSetKeyFrame_NoBeginUpdate(o, time, value) ==
  IF ~KeyFrameAccepted(o, value) THEN o
  ELSE LET p == IF o.valueType_ = VAR_NONE THEN DoSetValueType(o, value.type) ELSE o
       IN [p EXCEPT
             !.endTime_ = Max(time, p.endTime_),
             !.keyFrames_ = InsertKeyFrame(p.keyFrames_, [time_ |-> time, value_ |-> value]),
             !.splineTangentsDirty_ = TRUE]

DoSetKeyFrame(o, time, value) ==
  IF ~KeyFrameAccepted(o, value) THEN o
  ELSE LET p == IF o.valueType_ = VAR_NONE THEN DoSetValueType(o, value.type) ELSE o
       IN [p EXCEPT
             !.beginTime_ = Min(time, p.beginTime_),
             !.endTime_ = Max(time, p.endTime_),
             !.keyFrames_ = InsertKeyFrame(p.keyFrames_, [time_ |-> time, value_ |-> value]),
             !.splineTangentsDirty_ = TRUE]

(* ---------------------------- SetEventFrame --------------------------- *)
InsertEventFrame(frames, eventFrame) ==
  IF frames = <<>> \/ eventFrame.time_ >= Back(frames).time_
  THEN Append(frames, eventFrame)
  ELSE LET found == {i \in 0..(Len(frames) - 1) : eventFrame.time_ < At(frames, i).time_}
       IN IF found = {} THEN frames ELSE InsertAt(frames, SetMin(found), eventFrame)

(* variant: an event insertion marks the tangent cache dirty, as a         *)
(* keyframe insertion does                                                 *)
DoSetEventFrame_MarksDirty(o, time, eventType, eventData) ==
  [o EXCEPT !.eventFrames_ =
     InsertEventFrame(o.eventFrames_,
                      [time_ |-> time, eventType_ |-> eventType, eventData_ |-> eventData]),
            !.splineTangentsDirty_ = TRUE]

DoSetEventFrame(o, time, eventType, eventData) ==
  [o EXCEPT !.eventFrames_ =
     InsertEventFrame(o.eventFrames_,
                      [time_ |-> time, eventType_ |-> eventType, eventData_ |-> eventData])]

(* --------------------------- GetEventFrames --------------------------- *)
(* variant: the scan goes on past an entry at endTime, the range is closed *)
EventScanStops_AfterEnd(eventFrame, endTime) == eventFrame.time_ > endTime

(* line 265: the early exit of the scan *)
EventScanStops(eventFrame, endTime) == eventFrame.time_ >= endTime

(* the loop of lines 262-270 from index i on; out is the caller's vector,   *)
(* a pushed pointer &eventFrames_[i] is kept as the index i                *)
RECURSIVE ScanEventFrames(_, _, _, _, _)
ScanEventFrames(frames, i, beginTime, endTime, out) ==
  IF i >= Len(frames) THEN out
  ELSE LET eventFrame == At(frames, i)
       IN IF EventScanStops(eventFrame, endTime) THEN out
          ELSE ScanEventFrames(frames, i + 1, beginTime, endTime,
                               IF eventFrame.time_ >= beginTime
                               THEN Append(out, i) ELSE out)

(* GetEventFrames, lines 260-271, called with an empty result vector *)
GetEventFrames(o, beginTime, endTime) ==
  ScanEventFrames(o.eventFrames_, 0, beginTime, endTime, <<>>)

(* -------------------------- SaveXML / LoadXML ------------------------- *)
(* a "keyframe" element: the time attribute and the type and value         *)
(* attributes written by SetVariant                                        *)
KeyFrameElement(keyFrame) ==
  [time |-> keyFrame.time_, type |-> keyFrame.value_.type, value |-> keyFrame.value_.v]

(* an "eventframe" element: time, eventtype and the eventdata child *)
EventFrameElement(eventFrame) ==
  [time |-> eventFrame.time_, eventtype |-> eventFrame.eventType_,
   eventdata |-> eventFrame.eventData_]

(* SaveXML, lines 108-128: the children created under dest, in order *)
SaveXML(o) ==
  [keyframe |-> [i \in 1..Len(o.keyFrames_) |-> KeyFrameElement(o.keyFrames_[i])],
   eventframe |-> [i \in 1..Len(o.eventFrames_) |-> EventFrameElement(o.eventFrames_[i])]]

(* the loop of lines 85-92 from the i-th "keyframe" child on (1-based) *)
RECURSIVE LoadKeyFrames(_, _, _)
LoadKeyFrames(o, elems, i) ==
  IF i > Len(elems) THEN o
  ELSE LoadKeyFrames(DoSetKeyFrame(o, elems[i].time,
                                   [type |-> elems[i].type, v |-> elems[i].value]),
                     elems, i + 1)

(* the loop of lines 95-103 from the i-th "eventframe" child on (1-based) *)
RECURSIVE LoadEventFrames(_, _, _)
LoadEventFrames(o, elems, i) ==
  IF i > Len(elems) THEN o
  ELSE LoadEventFrames(DoSetEventFrame(o, elems[i].time, elems[i].eventtype,
                                       elems[i].eventdata),
                       elems, i + 1)

(* lines 81-82: what LoadXML resets before it reads the element *)
LoadXMLReset(o) == [o EXCEPT !.valueType_ = VAR_NONE, !.eventFrames_ = <<>>]

(* LoadXML, lines 79-106 *)
DoLoadXML(o, source) ==
  LoadEventFrames(LoadKeyFrames(LoadXMLReset(o), source.keyframe, 1), source.eventframe, 1)

(* ------------------------------- IsValid ------------------------------ *)
(* variant: IM_SPLINE is content with two keyframes *)
IsValid_SameThreshold(o) ==
  (o.interpolationMethod_ = IM_LINEAR /\ Len(o.keyFrames_) > 1) \/
  (o.interpolationMethod_ = IM_SPLINE /\ Len(o.keyFrames_) > 1)

IsValid(o) ==
  (o.interpolationMethod_ = IM_LINEAR /\ Len(o.keyFrames_) > 1) \/
  (o.interpolationMethod_ = IM_SPLINE /\ Len(o.keyFrames_) > 2)

(* ------------------------- Variant arithmetic ------------------------- *)
(* what a getter of Variant returns for a Variant of another type:         *)
(* Quaternion::IDENTITY (w, x, y, z) = (1, 0, 0, 0), Color::WHITE          *)
(* (1, 1, 1, 1), the zero value for every other type                       *)
DefaultValue(type) ==
  CASE type = VAR_QUATERNION -> <<FInt(1), FInt(0), FInt(0), FInt(0)>>
    [] type = VAR_COLOR -> <<FInt(1), FInt(1), FInt(1), FInt(1)>>
    [] OTHER -> [i \in 1..Dim(type) |-> FInt(0)]

(* Variant::GetFloat(), GetVector2(), ...: the payload if the Variant has  *)
(* the asked type, the default of that getter otherwise                    *)
Get(value, type) ==
  IF value.type = type THEN value.v ELSE DefaultValue(type)

(* Lerp of floats, vectors and colours: lhs * (1 - t) + rhs * t *)
Lerp(lhs, rhs, t) == VAdd(VScale(lhs, FSub(FInt(1), t)), VScale(rhs, t))

(* Quaternion::Slerp, kept as a term: its trigonometry is not evaluated *)
Slerp(lhs, rhs, t) ==
  [type |-> VAR_QUATERNION, v |-> <<>>, from |-> lhs, to |-> rhs, t |-> t]

(* results the (int) cast of a float can give; the cast of a non-finite    *)
(* float is undefined, any of these may come out                           *)
TruncOutcomes(a) == IF IsFinite(a) THEN {Trunc(a)} ELSE {0, -2147483647 - 1}

(* the integer vectors a component-wise (int) cast can produce *)
TruncAll(x) ==
  LET cands == UNION {TruncOutcomes(x[i]) : i \in 1..Len(x)}
  IN {[i \in 1..Len(x) |-> FInt(f[i])] :
        f \in {g \in [1..Len(x) -> cands] : \A i \in 1..Len(x) : g[i] \in TruncOutcomes(x[i])}}

(* LinearInterpolation(value1, value2, t), lines 282-323: the set of       *)
(* [value, logged] it can return                                           *)
LinearBlend(valueType, value1, value2, t) ==
  CASE valueType \in {VAR_FLOAT, VAR_VECTOR2, VAR_VECTOR3, VAR_VECTOR4, VAR_COLOR} ->
         {[value |-> [type |-> valueType,
                      v |-> Lerp(Get(value1, valueType), Get(value2, valueType), t)],
           logged |-> FALSE]}
    [] valueType = VAR_QUATERNION ->
         {[value |-> Slerp(Get(value1, valueType), Get(value2, valueType), t),
           logged |-> FALSE]}
    [] IsIntegerType(valueType) ->
         LET s == FSub(FInt(1), t)
             x == VAdd(VScale(Get(value1, valueType), s), VScale(Get(value2, valueType), t))
         IN {[value |-> [type |-> valueType, v |-> w], logged |-> FALSE] : w \in TruncAll(x)}
    [] OTHER -> {[value |-> EMPTY, logged |-> TRUE]}

(* the local parameter of lines 278 and 333 *)
LocalParam(keyFrame1, keyFrame2, scaledTime) ==
  Quot(scaledTime - keyFrame1.time_, keyFrame2.time_ - keyFrame1.time_)

(* LinearInterpolation(index1, index2, scaledTime), lines 273-280 *)
LinearInterpolation(o, index1, index2, scaledTime) ==
  LET keyFrame1 == At(o.keyFrames_, index1)
      keyFrame2 == At(o.keyFrames_, index2)
      t == LocalParam(keyFrame1, keyFrame2, scaledTime)
  IN LinearBlend(o.valueType_, keyFrame1.value_, keyFrame2.value_, t)

(* the case labels of the switch in SubstractAndMultiply, lines 396-412 *)
SubstractCase(type) ==
  type \in {VAR_FLOAT, VAR_VECTOR2, VAR_VECTOR3, VAR_VECTOR4, VAR_QUATERNION, VAR_COLOR}

(* SubstractAndMultiply, lines 392-417: [value, logged] *)
SubstractAndMultiply(valueType, value1, value2, t) ==
  IF SubstractCase(valueType)
  THEN [value |-> [type |-> valueType,
                   v |-> VScale([i \in 1..Dim(valueType) |->
                                   FSub(Get(value1, valueType)[i],
                                        Get(value2, valueType)[i])], t)],
        logged |-> FALSE]
  ELSE [value |-> EMPTY, logged |-> TRUE]

(* variant: the early return of line 378 also clears the dirty flag *)
DoUpdateSplineTangents_CleanWhenInvalid(o) ==
  IF ~IsValid(o) THEN [o EXCEPT !.splineTangents_ = <<>>, !.splineTangentsDirty_ = FALSE]
  ELSE LET size == Len(o.keyFrames_)
           zero == SubstractAndMultiply(o.valueType_, At(o.keyFrames_, 0).value_,
                                        At(o.keyFrames_, 0).value_, o.splineTension_).value
           inner(i) == SubstractAndMultiply(o.valueType_, At(o.keyFrames_, i + 1).value_,
                                            At(o.keyFrames_, i - 1).value_, o.splineTension_).value
       IN [o EXCEPT
             !.splineTangents_ =
                [j \in 1..size |-> IF j - 1 = 0 \/ j - 1 = size - 1 THEN zero ELSE inner(j - 1)],
             !.splineTangentsDirty_ = FALSE]

(* UpdateSplineTangents, lines 373-390 *)
DoUpdateSplineTangents(o) ==
  IF ~IsValid(o) THEN [o EXCEPT !.splineTangents_ = <<>>]
  ELSE LET size == Len(o.keyFrames_)
           zero == SubstractAndMultiply(o.valueType_, At(o.keyFrames_, 0).value_,
                                        At(o.keyFrames_, 0).value_, o.splineTension_).value
           inner(i) == SubstractAndMultiply(o.valueType_, At(o.keyFrames_, i + 1).value_,
                                            At(o.keyFrames_, i - 1).value_, o.splineTension_).value
       IN [o EXCEPT
             !.splineTangents_ =
                [j \in 1..size |-> IF j - 1 = 0 \/ j - 1 = size - 1 THEN zero ELSE inner(j - 1)],
             !.splineTangentsDirty_ = FALSE]

(* whether the rebuild of a valid track ran LOGERROR in SubstractAndMultiply *)
UpdateSplineTangentsLogged(o) == IsValid(o) /\ ~SubstractCase(o.valueType_)

(* tensions offered to SetSplineTension *)
Tensions == {<<1, 2>>, <<1, 1>>}

(* what a read of splineTangents_[i] past the end of the vector can give:  *)
(* the vector keeps its buffer over Clear(), so the read finds whatever an *)
(* earlier rebuild, of this or of another type, left there: the empty      *)
(* Variant, or components that are a difference of two payloads times a    *)
(* tension, or NaN                                                         *)
GarbageTangents(valueType) ==
  {EMPTY} \cup
  {[type |-> valueType, v |-> [i \in 1..Dim(valueType) |-> c]] :
     c \in {FMul(FInt(d), tension) : d \in (-MaxVal)..MaxVal, tension \in Tensions}
           \cup {<<0, 0>>}}

TangentReads(o, index) ==
  IF index < Len(o.splineTangents_) THEN {At(o.splineTangents_, index)}
  ELSE GarbageTangents(o.valueType_)

(* a read outside a vector's size can also end the process (the buffer of  *)
(* a vector that never held an element is null)                            *)
Crashed(o) ==
  [obj |-> o, value |-> EMPTY, logged |-> FALSE, outOfRange |-> TRUE, crashed |-> TRUE]

(* variant: h3 ends in + 1 instead of + t *)
Hermite_ConstantTerm(t) ==
  LET tt == FMul(t, t)
      ttt == FMul(t, tt)
  IN [h1 |-> FAdd(FSub(FMul(FInt(2), ttt), FMul(FInt(3), tt)), FInt(1)),
      h2 |-> FAdd(FMul(FInt(-2), ttt), FMul(FInt(3), tt)),
      h3 |-> FAdd(FSub(ttt, FMul(FInt(2), tt)), FInt(1)),
      h4 |-> FSub(ttt, tt)]

(* the cubic Hermite basis of lines 335-341 *)
Hermite(t) ==
  LET tt == FMul(t, t)
      ttt == FMul(t, tt)
  IN [h1 |-> FAdd(FSub(FMul(FInt(2), ttt), FMul(FInt(3), tt)), FInt(1)),
      h2 |-> FAdd(FMul(FInt(-2), ttt), FMul(FInt(3), tt)),
      h3 |-> FAdd(FSub(ttt, FMul(FInt(2), tt)), t),
      h4 |-> FSub(ttt, tt)]

(* the case labels of the switch in SplineInterpolation, lines 350-366 *)
SplineCase(type) ==
  type \in {VAR_FLOAT, VAR_VECTOR2, VAR_VECTOR3, VAR_VECTOR4, VAR_QUATERNION, VAR_COLOR}

(* lines 335-370 of SplineInterpolation: the Hermite combination of the   *)
(* two values read from the keyframes and the two tangents read from       *)
(* splineTangents_; the set of [obj, value, logged, outOfRange, crashed]   *)
(* it can end in.  The tangents are read in every case of the switch that  *)
(* computes, so a read past the end can end the process there.             *)
SplineCombine(p, rebuildLogged, value1, value2, t, index1, index2) ==
  LET h == Hermite(t)
      oob == index1 >= Len(p.splineTangents_) \/ index2 >= Len(p.splineTangents_)
      ty == p.valueType_
  IN IF SplineCase(ty)
     THEN {[obj |-> p,
            value |-> [type |-> ty,
                       v |-> VAdd(VAdd(VAdd(VScale(Get(value1, ty), h.h1),
                                            VScale(Get(value2, ty), h.h2)),
                                       VScale(Get(t1, ty), h.h3)),
                                  VScale(Get(t2, ty), h.h4))],
            logged |-> rebuildLogged,
            outOfRange |-> oob,
            crashed |-> FALSE] :
             t1 \in TangentReads(p, index1), t2 \in TangentReads(p, index2)}
          \cup (IF oob THEN {Crashed(p)} ELSE {})
     ELSE {[obj |-> p, value |-> EMPTY, logged |-> TRUE, outOfRange |-> oob,
            crashed |-> FALSE]}

(* lines 330-370 of SplineInterpolation, after the rebuild *)
SplineEvaluate(p, rebuildLogged, index1, index2, scaledTime) ==
  LET keyFrame1 == At(p.keyFrames_, index1)
      keyFrame2 == At(p.keyFrames_, index2)
  IN SplineCombine(p, rebuildLogged, keyFrame1.value_, keyFrame2.value_,
                   LocalParam(keyFrame1, keyFrame2, scaledTime), index1, index2)

(* SplineInterpolation, lines 325-371, run as a whole *)
SplineInterpolation(o, index1, index2, scaledTime) ==
  SplineEvaluate(IF o.splineTangentsDirty_ THEN DoUpdateSplineTangents(o) ELSE o,
                 o.splineTangentsDirty_ /\ UpdateSplineTangentsLogged(o),
                 index1, index2, scaledTime)

(* what a read of keyFrames_[0] of an empty vector can give: Clear() keeps *)
(* the buffer, so the read finds the value of a keyframe stored earlier,   *)
(* of the current type or of the type the track had before, or the empty   *)
(* Variant its destructor left                                             *)
GarbageValues ==
  {EMPTY} \cup {MakeVariant(type, q) : type \in VariantTypes \ {VAR_NONE}, q \in 0..MaxVal}

(* line 250: the read of keyFrames_[index - 1].value_ handed to the sink;  *)
(* the set of [obj, value, logged, outOfRange, crashed] it can end in      *)
HoldRead(o, index) ==
  IF index - 1 < Len(o.keyFrames_)
  THEN {[obj |-> o, value |-> At(o.keyFrames_, index - 1).value_,
         logged |-> FALSE, outOfRange |-> FALSE, crashed |-> FALSE]}
  ELSE {[obj |-> o, value |-> g, logged |-> FALSE, outOfRange |-> TRUE,
         crashed |-> FALSE] : g \in GarbageValues}
       \cup {Crashed(o)}

(* UpdateAttributeValue, lines 240-258: the set of [obj, value, logged,    *)
(* outOfRange, crashed] it can end in; value is what the sink receives     *)
BracketIndex(frames, scaledTime) ==
  LET hits == {i \in 1..(Len(frames) - 1) : scaledTime < At(frames, i).time_}
  IN IF hits = {} THEN Max(1, Len(frames)) ELSE SetMin(hits)

UpdateAttributeValue(o, scaledTime) ==
  LET index == BracketIndex(o.keyFrames_, scaledTime)
  IN IF index >= Len(o.keyFrames_) \/ ~o.isInterpolatable_
     THEN HoldRead(o, index)
     ELSE IF o.interpolationMethod_ = IM_LINEAR
          THEN {[obj |-> o, value |-> r.value, logged |-> r.logged, outOfRange |-> FALSE,
                 crashed |-> FALSE] :
                  r \in LinearInterpolation(o, index - 1, index, scaledTime)}
          ELSE SplineInterpolation(o, index - 1, index, scaledTime)

(* ------------------------------ inputs -------------------------------- *)
Times == 0..MaxTime

EventTimes == 0..MaxEventTime

(* types offered to SetValueType *)
SetTypes == {VAR_NONE, VAR_FLOAT, VAR_QUATERNION, VAR_INTRECT, VAR_INTVECTOR2}

(* values offered to SetKeyFrame: floats 0..MaxVal, one rotation, one      *)
(* integer vector and the empty Variant (a type without interpolation)     *)
KeyValues ==
  {MakeVariant(VAR_FLOAT, q) : q \in 0..MaxVal} \cup
  {MakeVariant(type, 1) : type \in {VAR_NONE, VAR_QUATERNION, VAR_INTVECTOR2}}

EventTypes == {1, 2}

(* the one event type offered in the full specification *)
CurveEventTypes == {1}

NoEventData == {}

(* times offered in the stepwise specification *)
RaceTimes == 0..MaxRaceTime

(* begin and end times offered to GetEventFrames, one past the last event  *)
(* time so that a range can hold every event                               *)
QueryTimes == 0..(MaxEventTime + 1)

(* --------- the buffer of keyFrames_ and the references into it -------- *)
(* Vector<T>::Resize: the capacity a buffer of capacity elements grows to  *)
(* when it has to hold newSize                                             *)
RECURSIVE GrowCapacity(_, _)
GrowCapacity(oldCapacity, newSize) ==
  IF newSize <= oldCapacity THEN oldCapacity
  ELSE IF oldCapacity = 0 THEN newSize
  ELSE GrowCapacity(oldCapacity + ((oldCapacity + 1) \div 2), newSize)

(* AttributeKeyFrame(): the element Resize() constructs in a new slot *)
NoFrame == [time_ |-> 0, value_ |-> EMPTY]

(* a float found where a keyframe's time was, after the memory was freed   *)
(* or before it was ever written: some float that is no time of the model. *)
(* It is never compared or subtracted as a number: the steps that read it  *)
(* take every outcome such a float can lead to                             *)
GarbageTime == 2 * M_INFINITY

(* a Variant whose type field is no VariantType: what is found where the   *)
(* allocator wrote over a freed keyframe's value                           *)
GarbageVariant == [type |-> "VAR_GARBAGE", v |-> <<>>]

(* a float the model does not follow: the result of arithmetic on a        *)
(* GarbageTime                                                             *)
Unspecified == <<0, -1>>

UnspecifiedValue(type) == [type |-> type, v |-> [i \in 1..Dim(type) |-> Unspecified]]

(* no reference bound *)
NoRef == [bound |-> FALSE, slot |-> 0, mem |-> "live", snap |-> NoFrame]

(* keyFrames_[slot] as operator[] evaluates it now: the address of the     *)
(* slot in the buffer that buffer_ points to.  mem tells what that memory  *)
(* is: a live element; an element whose destructor has run ("destructed"); *)
(* an element of a buffer that was freed ("freed"); a slot of the buffer   *)
(* past size_ ("stale"); memory past the buffer ("wild"); an address       *)
(* computed from the null buffer_ of a vector that never held an element   *)
(* ("null").  snap is the element as it was when its life ended            *)
Bind(slot) ==
  [bound |-> TRUE, slot |-> slot,
   mem |-> IF capacity = 0 THEN "null"
           ELSE IF slot < Len(keyFrames_) THEN editor.mem
           ELSE IF slot < capacity /\ editor.mem # "freed" THEN "stale"
           ELSE "wild",
   snap |-> IF slot < Len(keyFrames_) /\ editor.mem # "live"
            THEN At(keyFrames_, slot) ELSE NoFrame]

(* the life of the memory a reference points to has ended: Vector::Clear   *)
(* ran the destructors of the elements, or (freed) Vector::Resize moved    *)
(* the elements to a new buffer and freed the old one                      *)
Released(ref, freed) ==
  IF ~ref.bound THEN ref
  ELSE CASE ref.mem = "live" ->
              [ref EXCEPT !.mem = IF freed THEN "freed" ELSE "destructed",
                          !.snap = At(keyFrames_, ref.slot)]
         [] ref.mem = "destructed" /\ freed -> [ref EXCEPT !.mem = "freed"]
         [] ref.mem = "stale" /\ freed -> [ref EXCEPT !.mem = "wild"]
         [] OTHER -> ref

(* the keyframes a read through ref can find.  A slot of the current       *)
(* buffer that holds an element again is read as that element.  An element *)
(* whose destructor has run still has its time, its value is as it was or  *)
(* the empty Variant the destructor leaves.  An element of a freed buffer  *)
(* is as it was, or its time, its value or both were overwritten by the    *)
(* destructor or the allocator.  Memory that holds no element gives any    *)
(* keyframe stored there earlier, or garbage; the null buffer_ of a vector *)
(* that never held an element gives nothing                                *)
Deref(ref) ==
  CASE ref.mem = "live" -> {At(keyFrames_, ref.slot)}
    [] ref.mem \in {"destructed", "stale"} /\ editor.mem = "live"
         /\ ref.slot < Len(keyFrames_) -> {At(keyFrames_, ref.slot)}
    [] ref.mem = "destructed" ->
         {[time_ |-> ref.snap.time_, value_ |-> value] : value \in {ref.snap.value_, EMPTY}}
    [] ref.mem = "freed" ->
         {[time_ |-> time, value_ |-> value] :
            time \in {ref.snap.time_, GarbageTime},
            value \in {ref.snap.value_, EMPTY, GarbageVariant}}
    [] ref.mem = "null" -> {}
    [] OTHER ->
         {[time_ |-> time, value_ |-> value] :
            time \in RaceTimes \cup {GarbageTime},
            value \in GarbageValues \cup {GarbageVariant}}

(* the sampler between two samples; overlaps counts the times a call was   *)
(* entered while the other thread was inside one                           *)
Idle(overlaps) ==
  [pc |-> "idle", scaledTime |-> 0, index |-> 0, method |-> "",
   element |-> NoRef, keyFrame1 |-> NoRef, keyFrame2 |-> NoRef,
   time1 |-> 0, time2 |-> 0, t |-> FInt(0), type |-> VAR_NONE, first |-> EMPTY,
   size |-> 0, i |-> 0, ends |-> FALSE, rightToLeft |-> FALSE, argn |-> 0,
   value1 |-> NoRef, value2 |-> NoRef, tension |-> FInt(0),
   logged |-> FALSE, overlaps |-> overlaps]

(* no editing call under way; mem is the state of the memory buffer_       *)
(* points to: "live", "destructed" while Clear() has run the destructors   *)
(* and not yet set size_, "freed" while Resize() has freed the old buffer  *)
(* and not yet set buffer_                                                 *)
NoEdit ==
  [pc |-> "idle", mem |-> "live", type |-> VAR_NONE, inner |-> FALSE,
   frame |-> NoFrame, push |-> FALSE, pos |-> 0, k |-> 0,
   rest |-> <<>>, events |-> <<>>]

(* ------------------------------ actions ------------------------------- *)
Init ==
  /\ interpolationMethod_ = Constructed.interpolationMethod_
  /\ valueType_ = Constructed.valueType_
  /\ isInterpolatable_ = Constructed.isInterpolatable_
  /\ beginTime_ = Constructed.beginTime_
  /\ endTime_ = Constructed.endTime_
  /\ splineTension_ = Constructed.splineTension_
  /\ splineTangentsDirty_ = Constructed.splineTangentsDirty_
  /\ keyFrames_ = Constructed.keyFrames_
  /\ eventFrames_ = Constructed.eventFrames_
  /\ splineTangents_ = Constructed.splineTangents_
  /\ lastCall = [op |-> "new", arg |-> "", time |-> 0, ok |-> TRUE, value |-> EMPTY,
                 logged |-> FALSE, outOfRange |-> FALSE, crashed |-> FALSE,
                 sizeBefore |-> 0]
  /\ saved = [written |-> FALSE]
  /\ sampler = Idle(0)
  /\ editor = NoEdit
  /\ capacity = 0

SetValueType(valueType) ==
  /\ Assign(DoSetValueType(Self, valueType))
  /\ lastCall' = Call("SetValueType", "", 0, TRUE, EMPTY, FALSE, FALSE)
  /\ UNCHANGED <<saved, sampler, editor, capacity>>

SetInterpolationMethod(method) ==
  /\ Assign(DoSetInterpolationMethod(Self, method))
  /\ lastCall' = Call("SetInterpolationMethod", method, 0, TRUE, EMPTY, FALSE, FALSE)
  /\ UNCHANGED <<saved, sampler, editor, capacity>>

SetSplineTension(tension) ==
  /\ Assign(DoSetSplineTension(Self, tension))
  /\ lastCall' = Call("SetSplineTension", "", 0, TRUE, EMPTY, FALSE, FALSE)
  /\ UNCHANGED <<saved, sampler, editor, capacity>>

SetKeyFrame(time, value) ==
  /\ Assign(DoSetKeyFrame(Self, time, value))
  /\ lastCall' = Call("SetKeyFrame", "", time, KeyFrameAccepted(Self, value),
                      EMPTY, FALSE, FALSE)
  /\ UNCHANGED <<saved, sampler, editor, capacity>>

SetEventFrame(time, eventType, eventData) ==
  /\ Assign(DoSetEventFrame(Self, time, eventType, eventData))
  /\ lastCall' = Call("SetEventFrame", "", time, TRUE, EMPTY, FALSE, FALSE)
  /\ UNCHANGED <<saved, sampler, editor, capacity>>

Sample(scaledTime) ==
  \E r \in UpdateAttributeValue(Self, scaledTime) :
    /\ Assign(r.obj)
    /\ lastCall' = [Call("UpdateAttributeValue", "", scaledTime, TRUE, r.value,
                         r.logged, r.outOfRange) EXCEPT !.crashed = r.crashed]
    /\ UNCHANGED <<saved, sampler, editor, capacity>>

(* IsValid is const; the bool it returns is recorded *)
CheckValid ==
  /\ UNCHANGED <<objVars, saved, sampler, editor, capacity>>
  /\ lastCall' = Call("IsValid", "", 0, IsValid(Self), EMPTY, FALSE, FALSE)

(* GetEventFrames is const: only the record of the call changes *)
QueryEvents(beginTime, endTime) ==
  /\ UNCHANGED <<objVars, saved, sampler, editor, capacity>>
  /\ lastCall' = [op |-> "GetEventFrames", beginTime |-> beginTime, endTime |-> endTime,
                  frames |-> GetEventFrames(Self, beginTime, endTime), crashed |-> FALSE]

(* SaveXML is const; the element it wrote is kept together with the kind,  *)
(* keyframes and events of the curve it was written from                   *)
Save ==
  /\ UNCHANGED <<objVars, sampler, editor, capacity>>
  /\ saved' = [written |-> TRUE, root |-> SaveXML(Self), valueType_ |-> valueType_,
               keyFrames_ |-> keyFrames_, eventFrames_ |-> eventFrames_]
  /\ lastCall' = Call("SaveXML", "", 0, TRUE, EMPTY, FALSE, FALSE)

(* LoadXML of the element written by the last SaveXML *)
Load ==
  /\ saved.written
  /\ Assign(DoLoadXML(Self, saved.root))
  /\ lastCall' = Call("LoadXML", "", 0, TRUE, EMPTY, FALSE, FALSE)
  /\ UNCHANGED <<saved, sampler, editor, capacity>>

(* a read that ended the process ends the behaviour: no call follows it *)
Running == ~lastCall.crashed

(* the full specification: every editing operation and the sampler, in any *)
(* order                                                                   *)
Next ==
  /\ Running
  /\ \/ \E valueType \in SetTypes : SetValueType(valueType)
     \/ \E method \in Methods : SetInterpolationMethod(method)
     \/ \E tension \in Tensions : SetSplineTension(tension)
     \/ \E time \in Times, value \in KeyValues :
          Len(keyFrames_) < MaxKeys /\ SetKeyFrame(time, value)
     \/ \E time \in EventTimes, eventType \in CurveEventTypes :
          Len(eventFrames_) < MaxCurveEvents /\ SetEventFrame(time, eventType, NoEventData)
     \/ \E scaledTime \in Times : Sample(scaledTime)
     \/ CheckValid

Spec == Init /\ [][Next]_vars

(* the insertion-only specification: any sequence of SetKeyFrame and       *)
(* SetEventFrame calls on a new object                                     *)
NextInsert ==
  /\ Running
  /\ \/ \E time \in Times, value \in KeyValues :
          Len(keyFrames_) < MaxKeys /\ SetKeyFrame(time, value)
     \/ \E time \in EventTimes, eventType \in EventTypes :
          Len(eventFrames_) < MaxEvents /\ SetEventFrame(time, eventType, NoEventData)

SpecInsert == Init /\ [][NextInsert]_vars

(* the event-track specification: any sequence of SetEventFrame calls,     *)
(* queried at any point                                                    *)
NextEvents ==
  /\ Running
  /\ \/ \E time \in EventTimes, eventType \in EventTypes :
          Len(eventFrames_) < MaxEvents /\ SetEventFrame(time, eventType, NoEventData)
     \/ \E beginTime \in QueryTimes, endTime \in QueryTimes : QueryEvents(beginTime, endTime)

SpecEvents == Init /\ [][NextEvents]_vars

(* ------ a sample taken step by step, with edits between its steps ------ *)
(* Each step of the two threads is one access to memory they share: a read *)
(* by the sample, a write by the editing call.  What a thread does to      *)
(* memory only it touches (locals, splineTangents_ for the sample;         *)
(* beginTime_, endTime_, eventFrames_ for the edit) is part of its next    *)
(* shared access.                                                          *)
(* the record of a stepwise sample: the branch it took ("" for the hold    *)
(* branch) and the number of keyframes when it returned                    *)
SampleCall(r) ==
  [op |-> "UpdateAttributeValue", arg |-> sampler.method, time |-> sampler.scaledTime,
   ok |-> TRUE, value |-> r.value, logged |-> r.logged, outOfRange |-> r.outOfRange,
   crashed |-> r.crashed, sizeBefore |-> Len(keyFrames_)]

(* what a read through ref can do: find what it reads, or, at an address   *)
(* outside every buffer of the vector, end the process.  part tells what   *)
(* is read: "time_", "value_", or, for a type, the value through the       *)
(* getter of that type (value_.GetFloat(), GetVector2(), ...), which is    *)
(* kept as a Variant of the type                                           *)
ReadOutcomes(ref, part) ==
  LET Part(frame) ==
        CASE part = "time_" -> frame.time_
          [] part = "value_" -> frame.value_
          [] OTHER -> [type |-> part, v |-> Get(frame.value_, part)]
  IN {[crashed |-> FALSE, read |-> Part(frame)] : frame \in Deref(ref)} \cup
     (IF ref.mem \in {"wild", "null"} THEN {[crashed |-> TRUE, read |-> Part(NoFrame)]}
      ELSE {})

(* whether ref was bound to a slot outside the vector's size *)
OutOfRange(ref) == ref.mem \in {"stale", "wild", "null"}

(* the sample returns with outcome r: it handed a value to the sink, or    *)
(* it ended the process                                                    *)
SamplerReturn(r) ==
  /\ lastCall' = SampleCall(r)
  /\ sampler' = Idle(sampler.overlaps)

(* lines 242-243: index = 1 and the first test of the loop *)
RaceBegin(scaledTime) ==
  /\ sampler.pc = "idle"
  /\ editor.pc = "idle" \/ sampler.overlaps < MaxOverlaps
  /\ sampler' = [sampler EXCEPT
                   !.pc = IF 1 < Len(keyFrames_) THEN "element" ELSE "branch",
                   !.index = 1,
                   !.scaledTime = scaledTime,
                   !.overlaps = IF editor.pc = "idle" THEN @ ELSE @ + 1]
  /\ lastCall' = Call("", "", 0, TRUE, EMPTY, FALSE, FALSE)
  /\ UNCHANGED <<objVars, saved, editor, capacity>>

(* line 243: index < keyFrames_.Size() *)
RaceLoop ==
  /\ sampler.pc = "loop"
  /\ sampler' = ([sampler EXCEPT
                    !.pc = IF sampler.index < Len(keyFrames_) THEN "element" ELSE "branch"])
  /\ UNCHANGED <<objVars, lastCall, saved, editor, capacity>>

(* line 245: keyFrames_[index], the reference operator[] returns *)
RaceElement ==
  /\ sampler.pc = "element"
  /\ sampler' = ([sampler EXCEPT !.pc = "compare", !.element = Bind(sampler.index)])
  /\ UNCHANGED <<objVars, lastCall, saved, editor, capacity>>

(* lines 245-246 and the ++index of line 243: the time is read through the *)
(* reference and compared; a garbage time can compare either way           *)
RaceCompare ==
  /\ sampler.pc = "compare"
  /\ \E r \in ReadOutcomes(sampler.element, "time_") :
       IF r.crashed
       THEN SamplerReturn(Crashed(Self))
       ELSE /\ \E breaks \in IF r.read = GarbageTime THEN BOOLEAN
                             ELSE {sampler.scaledTime < r.read} :
                 IF breaks
                 THEN sampler' = ([sampler EXCEPT !.pc = "branch", !.element = NoRef])
                 ELSE sampler' = ([sampler EXCEPT !.pc = "loop", !.element = NoRef,
                                                  !.index = sampler.index + 1])
            /\ UNCHANGED lastCall
  /\ UNCHANGED <<objVars, saved, editor, capacity>>

(* line 249, left operand: index >= keyFrames_.Size() *)
RaceBranch ==
  /\ sampler.pc = "branch"
  /\ sampler' = ([sampler EXCEPT
                    !.pc = IF sampler.index >= Len(keyFrames_) THEN "holdelement"
                           ELSE "interpolatable"])
  /\ UNCHANGED <<objVars, lastCall, saved, editor, capacity>>

(* line 249, right operand: !isInterpolatable_ *)
RaceIsInterpolatable ==
  /\ sampler.pc = "interpolatable"
  /\ sampler' = ([sampler EXCEPT
                    !.pc = IF isInterpolatable_ THEN "method" ELSE "holdelement"])
  /\ UNCHANGED <<objVars, lastCall, saved, editor, capacity>>

(* line 253: interpolationMethod_ == IM_LINEAR *)
RaceMethod ==
  /\ sampler.pc = "method"
  /\ sampler' = ([sampler EXCEPT
                    !.pc = IF interpolationMethod_ = IM_LINEAR THEN "bind1" ELSE "check",
                    !.method = interpolationMethod_])
  /\ UNCHANGED <<objVars, lastCall, saved, editor, capacity>>

(* line 250: keyFrames_[index - 1], the reference handed to the sink *)
RaceHoldElement ==
  /\ sampler.pc = "holdelement"
  /\ sampler' = ([sampler EXCEPT !.pc = "hold", !.element = Bind(sampler.index - 1)])
  /\ UNCHANGED <<objVars, lastCall, saved, editor, capacity>>

(* line 250: the sink reads the value through the reference *)
RaceHold ==
  /\ sampler.pc = "hold"
  /\ \E r \in ReadOutcomes(sampler.element, "value_") :
       IF r.crashed
       THEN SamplerReturn(Crashed(Self))
       ELSE SamplerReturn([value |-> r.read, logged |-> FALSE,
                           outOfRange |-> OutOfRange(sampler.element),
                           crashed |-> FALSE])
  /\ UNCHANGED <<objVars, saved, editor, capacity>>

(* lines 275 and 330: keyFrame1 is bound *)
RaceBind1 ==
  /\ sampler.pc = "bind1"
  /\ sampler' = ([sampler EXCEPT !.pc = "bind2", !.keyFrame1 = Bind(sampler.index - 1)])
  /\ UNCHANGED <<objVars, lastCall, saved, editor, capacity>>

(* lines 276 and 331: keyFrame2 is bound *)
RaceBind2 ==
  /\ sampler.pc = "bind2"
  /\ sampler' = ([sampler EXCEPT !.pc = "time1", !.keyFrame2 = Bind(sampler.index)])
  /\ UNCHANGED <<objVars, lastCall, saved, editor, capacity>>

(* lines 278 and 333: the first read of keyFrame1.time_ *)
RaceTime1 ==
  /\ sampler.pc = "time1"
  /\ \E r \in ReadOutcomes(sampler.keyFrame1, "time_") :
       IF r.crashed
       THEN SamplerReturn(Crashed(Self))
       ELSE sampler' = ([sampler EXCEPT !.pc = "time2", !.time1 = r.read])
            /\ UNCHANGED lastCall
  /\ UNCHANGED <<objVars, saved, editor, capacity>>

(* lines 278 and 333: the read of keyFrame2.time_ *)
RaceTime2 ==
  /\ sampler.pc = "time2"
  /\ \E r \in ReadOutcomes(sampler.keyFrame2, "time_") :
       IF r.crashed
       THEN SamplerReturn(Crashed(Self))
       ELSE sampler' = ([sampler EXCEPT !.pc = "param", !.time2 = r.read])
            /\ UNCHANGED lastCall
  /\ UNCHANGED <<objVars, saved, editor, capacity>>

(* t = (scaledTime - a) / (b - c) for a and c read from keyFrame1.time_    *)
(* and b from keyFrame2.time_.  With a garbage time g among them the       *)
(* result is some float the model does not follow, except where float      *)
(* arithmetic gives the same result for every large g: (s - g) / (b - g)   *)
(* is 1, and (s - a) / (..g..) is 0 when s = a                             *)
ParamOutcomes(scaledTime, a, b, c) ==
  IF a # GarbageTime /\ b # GarbageTime /\ c # GarbageTime
  THEN {Quot(scaledTime - a, b - c)}
  ELSE {Unspecified} \cup
       (IF a = GarbageTime /\ c = GarbageTime /\ b # GarbageTime THEN {FInt(1)} ELSE {}) \cup
       (IF a # GarbageTime /\ scaledTime = a THEN {FInt(0)} ELSE {})

(* lines 278 and 333: keyFrame1.time_ is read a second time, or the value  *)
(* of the first read is used again; the read made first goes to the        *)
(* numerator or to the denominator, as the build orders the operands       *)
RaceParam ==
  /\ sampler.pc = "param"
  /\ \E r \in ReadOutcomes(sampler.keyFrame1, "time_") \cup
              {[crashed |-> FALSE, read |-> sampler.time1]} :
       IF r.crashed
       THEN SamplerReturn(Crashed(Self))
       ELSE /\ \E rightToLeft \in BOOLEAN :
                 \E t \in ParamOutcomes(sampler.scaledTime,
                                        IF rightToLeft THEN r.read ELSE sampler.time1,
                                        sampler.time2,
                                        IF rightToLeft THEN sampler.time1 ELSE r.read) :
                   sampler' = ([sampler EXCEPT !.pc = "type", !.t = t,
                                               !.time1 = 0, !.time2 = 0])
            /\ UNCHANGED lastCall
  /\ UNCHANGED <<objVars, saved, editor, capacity>>

(* lines 284 and 348: switch (valueType_).  Without a case for the type    *)
(* the function logs and returns the empty Variant.  SplineInterpolation   *)
(* has by then indexed splineTangents_[index1] and [index2] (lines         *)
(* 345-346), past the end when the array is shorter.  The order in which   *)
(* the two values are read afterwards is the build's choice                *)
RaceType ==
  /\ sampler.pc = "type"
  /\ IF (sampler.method = IM_LINEAR
          /\ (IsBlendType(valueType_) \/ IsIntegerType(valueType_)))
        \/ (sampler.method # IM_LINEAR /\ SplineCase(valueType_))
     THEN /\ \E rightToLeft \in BOOLEAN :
               sampler' = ([sampler EXCEPT !.pc = "first", !.type = valueType_,
                                           !.rightToLeft = rightToLeft])
          /\ UNCHANGED lastCall
     ELSE SamplerReturn([value |-> EMPTY,
                         logged |-> TRUE,
                         outOfRange |-> \/ OutOfRange(sampler.keyFrame1)
                                        \/ OutOfRange(sampler.keyFrame2)
                                        \/ /\ sampler.method # IM_LINEAR
                                           /\ sampler.index >= Len(splineTangents_),
                         crashed |-> FALSE])
  /\ UNCHANGED <<objVars, saved, editor, capacity>>

(* lines 287-316 and 351-366: the first of the two values is read *)
RaceFirst ==
  /\ sampler.pc = "first"
  /\ \E r \in ReadOutcomes(IF sampler.rightToLeft THEN sampler.keyFrame2
                           ELSE sampler.keyFrame1, sampler.type) :
       IF r.crashed
       THEN SamplerReturn(Crashed(Self))
       ELSE sampler' = ([sampler EXCEPT !.pc = "second", !.first = r.read])
            /\ UNCHANGED lastCall
  /\ UNCHANGED <<objVars, saved, editor, capacity>>

(* lines 287-316: the second value is read and the two are blended; a t    *)
(* the model does not follow gives a value it does not follow              *)
RaceBlend ==
  /\ sampler.pc = "second"
  /\ sampler.method = IM_LINEAR
  /\ \E r \in ReadOutcomes(IF sampler.rightToLeft THEN sampler.keyFrame1
                           ELSE sampler.keyFrame2, sampler.type) :
       IF r.crashed
       THEN SamplerReturn(Crashed(Self))
       ELSE LET value1 == IF sampler.rightToLeft THEN r.read ELSE sampler.first
                value2 == IF sampler.rightToLeft THEN sampler.first ELSE r.read
                blends == IF sampler.t = Unspecified
                          THEN {[value |-> UnspecifiedValue(sampler.type),
                                 logged |-> FALSE]}
                          ELSE LinearBlend(sampler.type, value1, value2, sampler.t)
            IN \E b \in blends :
                 SamplerReturn([value |-> b.value, logged |-> b.logged,
                                outOfRange |-> OutOfRange(sampler.keyFrame1)
                                                 \/ OutOfRange(sampler.keyFrame2),
                                crashed |-> FALSE])
  /\ UNCHANGED <<objVars, saved, editor, capacity>>

(* lines 351-366: the second value and the two tangents are read and the   *)
(* result is computed; a t the model does not follow gives a value it does *)
(* not follow                                                              *)
RaceRead ==
  /\ sampler.pc = "second"
  /\ sampler.method # IM_LINEAR
  /\ \E r \in ReadOutcomes(IF sampler.rightToLeft THEN sampler.keyFrame1
                           ELSE sampler.keyFrame2, sampler.type) :
       IF r.crashed
       THEN SamplerReturn(Crashed(Self))
       ELSE LET value1 == IF sampler.rightToLeft THEN r.read ELSE sampler.first
                value2 == IF sampler.rightToLeft THEN sampler.first ELSE r.read
                p == [Self EXCEPT !.valueType_ = sampler.type]
                oob == sampler.index >= Len(splineTangents_)
                results ==
                  IF sampler.t = Unspecified
                  THEN {[obj |-> p, value |-> UnspecifiedValue(sampler.type),
                         logged |-> sampler.logged, outOfRange |-> oob,
                         crashed |-> FALSE]}
                       \cup (IF oob THEN {Crashed(p)} ELSE {})
                  ELSE SplineCombine(p, sampler.logged, value1, value2, sampler.t,
                                     sampler.index - 1, sampler.index)
            IN \E c \in results :
                 SamplerReturn([c EXCEPT !.outOfRange =
                                  c.outOfRange \/ OutOfRange(sampler.keyFrame1)
                                               \/ OutOfRange(sampler.keyFrame2)])
  /\ UNCHANGED <<objVars, saved, editor, capacity>>

(* line 327 and, when the flag is set, line 375: splineTangents_.Clear() *)
RaceCheck ==
  /\ sampler.pc = "check"
  /\ IF splineTangentsDirty_
     THEN /\ Assign([Self EXCEPT !.splineTangents_ = <<>>])
          /\ sampler' = ([sampler EXCEPT !.pc = "valid1"])
     ELSE /\ UNCHANGED objVars
          /\ sampler' = ([sampler EXCEPT !.pc = "bind1"])
  /\ UNCHANGED <<lastCall, saved, editor, capacity>>

(* line 377, IsValid(), line 231: interpolationMethod_ == IM_LINEAR.  When *)
(* it is not, the build may take IM_SPLINE from this read or read again    *)
RaceValidMethod ==
  /\ sampler.pc = "valid1"
  /\ \E again \in BOOLEAN :
       sampler' = ([sampler EXCEPT
                      !.pc = IF interpolationMethod_ = IM_LINEAR THEN "valid2"
                             ELSE IF again THEN "valid3" ELSE "valid4"])
  /\ UNCHANGED <<objVars, lastCall, saved, editor, capacity>>

(* line 231: keyFrames_.Size() > 1; when it is not, the second operand of  *)
(* || is evaluated, from the method read before or from a new read         *)
RaceValidLinear ==
  /\ sampler.pc = "valid2"
  /\ \E again \in BOOLEAN :
       sampler' = ([sampler EXCEPT
                      !.pc = IF Len(keyFrames_) > 1 THEN "size"
                             ELSE IF again THEN "valid3" ELSE "bind1"])
  /\ UNCHANGED <<objVars, lastCall, saved, editor, capacity>>

(* line 231: interpolationMethod_ == IM_SPLINE, read again *)
RaceValidAgain ==
  /\ sampler.pc = "valid3"
  /\ sampler' = ([sampler EXCEPT
                    !.pc = IF interpolationMethod_ = IM_SPLINE THEN "valid4" ELSE "bind1"])
  /\ UNCHANGED <<objVars, lastCall, saved, editor, capacity>>

(* line 231: keyFrames_.Size() > 2 *)
RaceValidSpline ==
  /\ sampler.pc = "valid4"
  /\ sampler' = ([sampler EXCEPT !.pc = IF Len(keyFrames_) > 2 THEN "size" ELSE "bind1"])
  /\ UNCHANGED <<objVars, lastCall, saved, editor, capacity>>

(* lines 380-383: size = keyFrames_.Size(), Resize(size) and the first     *)
(* test of the loop.  With size 0 the unsigned size - 1 is 4294967295 and  *)
(* the loop runs over the end of both vectors: the process ends.  The      *)
(* order in which the arguments and operands of SubstractAndMultiply are   *)
(* evaluated is the build's choice                                         *)
RaceSize ==
  /\ sampler.pc = "size"
  /\ IF Len(keyFrames_) = 0
     THEN /\ SamplerReturn(Crashed(Self))
          /\ UNCHANGED objVars
     ELSE /\ Assign([Self EXCEPT !.splineTangents_ =
                       [j \in 1..Len(keyFrames_) |->
                          IF j <= Len(splineTangents_) THEN splineTangents_[j]
                          ELSE EMPTY]])
          /\ \E rightToLeft \in BOOLEAN :
               sampler' = ([sampler EXCEPT !.pc = "argument", !.i = 1, !.argn = 1,
                                           !.size = Len(keyFrames_),
                                           !.ends = ~(1 < Len(keyFrames_) - 1),
                                           !.rightToLeft = rightToLeft])
          /\ UNCHANGED lastCall
  /\ UNCHANGED <<saved, editor, capacity>>

(* lines 384 and 387: one argument of SubstractAndMultiply is evaluated:   *)
(* a reference to a keyframe's value is bound, or splineTension_ is read   *)
RaceArgument ==
  /\ sampler.pc = "argument"
  /\ LET which == IF sampler.rightToLeft THEN 4 - sampler.argn ELSE sampler.argn
         slot1 == IF sampler.ends THEN 0 ELSE sampler.i + 1
         slot2 == IF sampler.ends THEN 0 ELSE sampler.i - 1
         s == [sampler EXCEPT
                 !.value1 = IF which = 1 THEN Bind(slot1) ELSE sampler.value1,
                 !.value2 = IF which = 2 THEN Bind(slot2) ELSE sampler.value2,
                 !.tension = IF which = 3 THEN splineTension_ ELSE sampler.tension]
     IN IF sampler.argn < 3
        THEN sampler' = ([s EXCEPT !.argn = sampler.argn + 1])
        ELSE sampler' = ([s EXCEPT !.pc = "tangenttype", !.argn = 0])
  /\ UNCHANGED <<objVars, lastCall, saved, editor, capacity>>

(* the object after the store of lines 384 or 387 *)
TangentStored(tangent) ==
  IF sampler.ends
  THEN [Self EXCEPT !.splineTangents_[1] = tangent,
                    !.splineTangents_[sampler.size] = tangent]
  ELSE [Self EXCEPT !.splineTangents_[sampler.i + 1] = tangent]

(* the sampler after the store: the next turn of the loop, the end points  *)
(* after the last turn, line 389 after the end points                      *)
AfterStore(logged) ==
  LET s == [sampler EXCEPT !.value1 = NoRef, !.value2 = NoRef, !.tension = FInt(0),
                           !.type = VAR_NONE, !.first = EMPTY,
                           !.logged = sampler.logged \/ logged]
  IN IF sampler.ends
     THEN [s EXCEPT !.pc = "clean", !.ends = FALSE, !.i = 0, !.size = 0,
                    !.rightToLeft = FALSE]
     ELSE [s EXCEPT !.pc = "argument", !.argn = 1, !.i = sampler.i + 1,
                    !.ends = ~(sampler.i + 1 < sampler.size - 1)]

(* line 394: switch (valueType_) in SubstractAndMultiply; without a case   *)
(* for the type the empty Variant is stored                                *)
RaceTangentType ==
  /\ sampler.pc = "tangenttype"
  /\ IF SubstractCase(valueType_)
     THEN /\ sampler' = ([sampler EXCEPT !.pc = "tangentfirst", !.type = valueType_])
          /\ UNCHANGED objVars
     ELSE /\ Assign(TangentStored(EMPTY))
          /\ sampler' = (AfterStore(TRUE))
  /\ UNCHANGED <<lastCall, saved, editor, capacity>>

(* lines 397-412: the first operand of the subtraction is read *)
RaceTangentFirst ==
  /\ sampler.pc = "tangentfirst"
  /\ \E r \in ReadOutcomes(IF sampler.rightToLeft THEN sampler.value2
                           ELSE sampler.value1, sampler.type) :
       IF r.crashed
       THEN SamplerReturn(Crashed(Self))
       ELSE sampler' = ([sampler EXCEPT !.pc = "store", !.first = r.read])
            /\ UNCHANGED lastCall
  /\ UNCHANGED <<objVars, saved, editor, capacity>>

(* lines 397-412 and the store of 384 or 387: the second operand is read,  *)
(* the tangent is computed and stored; then the next test of the loop      *)
RaceStore ==
  /\ sampler.pc = "store"
  /\ \E r \in ReadOutcomes(IF sampler.rightToLeft THEN sampler.value1
                           ELSE sampler.value2, sampler.type) :
       IF r.crashed
       THEN SamplerReturn(Crashed(Self)) /\ UNCHANGED objVars
       ELSE LET value1 == IF sampler.rightToLeft THEN r.read ELSE sampler.first
                value2 == IF sampler.rightToLeft THEN sampler.first ELSE r.read
                tangent == SubstractAndMultiply(sampler.type, value1, value2, sampler.tension)
            IN /\ Assign(TangentStored(tangent.value))
               /\ sampler' = (AfterStore(tangent.logged))
               /\ UNCHANGED lastCall
  /\ UNCHANGED <<saved, editor, capacity>>

(* line 389 *)
RaceClean ==
  /\ sampler.pc = "clean"
  /\ Assign([Self EXCEPT !.splineTangentsDirty_ = FALSE])
  /\ sampler' = ([sampler EXCEPT !.pc = "bind1"])
  /\ UNCHANGED <<lastCall, saved, editor, capacity>>

(* ------------------- the editing calls, step by step ------------------ *)
(* variant: the store of the dirty flag is missing *)
MarkDirty_Skip(o) == o

(* lines 166, 172 and 203: splineTangentsDirty_ = true *)
MarkDirty(o) == [o EXCEPT !.splineTangentsDirty_ = TRUE]

(* the life of the elements ends for every reference the sample holds *)
MapRefs(s, freed) ==
  [s EXCEPT !.element = Released(s.element, freed),
            !.keyFrame1 = Released(s.keyFrame1, freed),
            !.keyFrame2 = Released(s.keyFrame2, freed),
            !.value1 = Released(s.value1, freed),
            !.value2 = Released(s.value2, freed)]

(* lines 189-200: where the keyframe goes, and what Push or Insert does    *)
(* first: Resize() moves the elements to a new buffer when the capacity is *)
(* used up ("free", or "switch" when there is no old buffer), else Push    *)
(* constructs the element and Insert a default one at the end              *)
BeginInsert(frames, bufferCapacity, frame, rest, events) ==
  LET push == frames = <<>> \/ frame.time_ >= Back(frames).time_
      found == {i \in 0..(Len(frames) - 1) : frame.time_ < At(frames, i).time_}
  IN [NoEdit EXCEPT
        !.pc = IF ~push /\ found = {} THEN "dirty"
               ELSE IF Len(frames) + 1 > bufferCapacity
               THEN (IF bufferCapacity = 0 THEN "switch" ELSE "free")
               ELSE IF push THEN "push" ELSE "grow",
        !.frame = frame, !.push = push,
        !.pos = IF push \/ found = {} THEN 0 ELSE SetMin(found),
        !.rest = rest, !.events = events]

(* a SetKeyFrame has returned: LoadXML goes on with the next "keyframe"    *)
(* child, or with the "eventframe" children and returns; [obj, editor]     *)
Returned(o, rest, events) ==
  IF rest = <<>>
  THEN [obj |-> LoadEventFrames(o, events, 1), editor |-> NoEdit]
  ELSE [obj |-> o, editor |-> [NoEdit EXCEPT !.pc = "call", !.rest = rest, !.events = events]]

(* lines 177-187 of SetKeyFrame, and line 140 when it calls SetValueType:  *)
(* [obj, editor]                                                           *)
KeyFrameEntered(o, bufferCapacity, frame, rest, events) ==
  IF o.valueType_ = VAR_NONE /\ frame.value_.type # VAR_NONE
  THEN [obj |-> [o EXCEPT !.valueType_ = frame.value_.type],
        editor |-> [NoEdit EXCEPT !.pc = "interpolatable", !.type = frame.value_.type,
                                  !.inner = TRUE, !.frame = frame,
                                  !.rest = rest, !.events = events]]
  ELSE IF ~KeyFrameAccepted(o, frame.value_)
  THEN Returned(o, rest, events)
  ELSE [obj |-> [o EXCEPT !.beginTime_ = Min(frame.time_, o.beginTime_),
                          !.endTime_ = Max(frame.time_, o.endTime_)],
        editor |-> BeginInsert(o.keyFrames_, bufferCapacity, frame, rest, events)]

(* SetValueType has returned, to its caller or into SetKeyFrame, which     *)
(* goes on with lines 182-200: [obj, editor]                               *)
ValueTypeReturned(o, bufferCapacity, e) ==
  IF e.inner
  THEN [obj |-> [o EXCEPT !.beginTime_ = Min(e.frame.time_, o.beginTime_),
                          !.endTime_ = Max(e.frame.time_, o.endTime_)],
        editor |-> BeginInsert(o.keyFrames_, bufferCapacity, e.frame, e.rest, e.events)]
  ELSE [obj |-> o, editor |-> NoEdit]

(* lines 151-153 of SetValueType when keyFrames_ is empty (Clear() changes *)
(* nothing), else the editor before Clear(): [obj, editor]                 *)
BeginClear(o, bufferCapacity, e) ==
  IF o.keyFrames_ = <<>>
  THEN ValueTypeReturned([o EXCEPT !.beginTime_ = M_INFINITY, !.endTime_ = -M_INFINITY],
                         bufferCapacity, e)
  ELSE [obj |-> o, editor |-> [e EXCEPT !.pc = "destruct"]]

(* an editing call is entered: it is counted if a sample is under way, and *)
(* the sample that returned last is no longer the last call                *)
EditorEnters ==
  /\ editor.pc = "idle"
  /\ sampler.pc = "idle" \/ sampler.overlaps < MaxOverlaps
  /\ sampler' = [sampler EXCEPT !.overlaps = IF sampler.pc = "idle" THEN @ ELSE @ + 1]
  /\ lastCall' = Call("", "", 0, TRUE, EMPTY, FALSE, FALSE)

(* SetValueType, lines 137-140 *)
RaceSetValueType(valueType) ==
  /\ EditorEnters
  /\ IF valueType = valueType_
     THEN UNCHANGED <<objVars, editor>>
     ELSE /\ Assign([Self EXCEPT !.valueType_ = valueType])
          /\ editor' = [NoEdit EXCEPT !.pc = "interpolatable", !.type = valueType]
  /\ UNCHANGED <<saved, capacity>>

(* line 141 *)
RaceStoreInterpolatable ==
  /\ editor.pc = "interpolatable"
  /\ LET o == [Self EXCEPT !.isInterpolatable_ = IsBlendType(editor.type)]
         r == IF IsIntegerType(editor.type)
              THEN [obj |-> o, editor |-> [editor EXCEPT !.pc = "integer"]]
              ELSE BeginClear(o, capacity, editor)
     IN Assign(r.obj) /\ editor' = r.editor
  /\ UNCHANGED <<lastCall, saved, sampler, capacity>>

(* line 146 *)
RaceStoreInteger ==
  /\ editor.pc = "integer"
  /\ Assign([Self EXCEPT !.isInterpolatable_ = TRUE])
  /\ editor' = [editor EXCEPT !.pc = "force"]
  /\ UNCHANGED <<lastCall, saved, sampler, capacity>>

(* line 148 *)
RaceForceLinear ==
  /\ editor.pc = "force"
  /\ LET r == BeginClear([Self EXCEPT !.interpolationMethod_ = IM_LINEAR], capacity, editor)
     IN Assign(r.obj) /\ editor' = r.editor
  /\ UNCHANGED <<lastCall, saved, sampler, capacity>>

(* line 151, Vector::Clear(): the destructors of the elements run; size_   *)
(* is still what it was                                                    *)
RaceDestruct ==
  /\ editor.pc = "destruct"
  /\ editor' = [editor EXCEPT !.pc = "size", !.mem = "destructed"]
  /\ sampler' = MapRefs(sampler, FALSE)
  /\ UNCHANGED <<objVars, lastCall, saved, capacity>>

(* line 151, Vector::Clear(): size_ = 0; lines 152-153 *)
RaceShrink ==
  /\ editor.pc = "size"
  /\ LET r == ValueTypeReturned([Self EXCEPT !.keyFrames_ = <<>>,
                                             !.beginTime_ = M_INFINITY,
                                             !.endTime_ = -M_INFINITY],
                                capacity, [editor EXCEPT !.mem = "live"])
     IN Assign(r.obj) /\ editor' = r.editor
  /\ UNCHANGED <<lastCall, saved, sampler, capacity>>

(* SetKeyFrame, lines 177-187; a rejected call returns here *)
RaceSetKeyFrame(time, value) ==
  /\ EditorEnters
  /\ LET r == KeyFrameEntered(Self, capacity, [time_ |-> time, value_ |-> value],
                              <<>>, <<>>)
     IN Assign(r.obj) /\ editor' = r.editor
  /\ UNCHANGED <<saved, capacity>>

(* lines 190 and 197, Vector::Resize(): the elements were copied to a new  *)
(* buffer; the old elements are destructed and the old buffer is freed,    *)
(* buffer_ still points to it                                              *)
RaceFree ==
  /\ editor.pc = "free"
  /\ editor' = [editor EXCEPT !.pc = "switch", !.mem = "freed"]
  /\ sampler' = MapRefs(sampler, TRUE)
  /\ UNCHANGED <<objVars, lastCall, saved, capacity>>

(* lines 190 and 197, Vector::Resize(): buffer_ = newBuffer *)
RaceSwitch ==
  /\ editor.pc = "switch"
  /\ capacity' = GrowCapacity(capacity, Len(keyFrames_) + 1)
  /\ editor' = [editor EXCEPT !.pc = IF editor.push THEN "push" ELSE "grow",
                              !.mem = "live"]
  /\ UNCHANGED <<objVars, lastCall, saved, sampler>>

(* line 190, Vector::Push(): the element is constructed past the end and   *)
(* size_ is raised                                                         *)
RacePush ==
  /\ editor.pc = "push"
  /\ Assign([Self EXCEPT !.keyFrames_ = Append(keyFrames_, editor.frame)])
  /\ editor' = [editor EXCEPT !.pc = "dirty"]
  /\ UNCHANGED <<lastCall, saved, sampler, capacity>>

(* line 197, Vector::Insert(): Resize(size_ + 1) constructs a default      *)
(* element at the end and raises size_                                     *)
RaceGrow ==
  /\ editor.pc = "grow"
  /\ Assign([Self EXCEPT !.keyFrames_ = Append(keyFrames_, NoFrame)])
  /\ editor' = [editor EXCEPT !.pc = "movetime", !.k = Len(keyFrames_) - editor.pos]
  /\ UNCHANGED <<lastCall, saved, sampler, capacity>>

(* line 197, Vector::MoveRange(): buffer[pos + k] = buffer[pos + k - 1],   *)
(* from the last element down; the assignment copies time_ ...             *)
RaceMoveTime ==
  /\ editor.pc = "movetime"
  /\ Assign([Self EXCEPT !.keyFrames_[editor.pos + editor.k + 1].time_ =
                            At(keyFrames_, editor.pos + editor.k - 1).time_])
  /\ editor' = [editor EXCEPT !.pc = "movevalue"]
  /\ UNCHANGED <<lastCall, saved, sampler, capacity>>

(* ... and then value_ *)
RaceMoveValue ==
  /\ editor.pc = "movevalue"
  /\ Assign([Self EXCEPT !.keyFrames_[editor.pos + editor.k + 1].value_ =
                            At(keyFrames_, editor.pos + editor.k - 1).value_])
  /\ editor' = [editor EXCEPT !.pc = IF editor.k > 1 THEN "movetime" ELSE "settime",
                              !.k = editor.k - 1]
  /\ UNCHANGED <<lastCall, saved, sampler, capacity>>

(* line 197, Vector::Insert(): Buffer()[pos] = value, time_ ... *)
RaceSetTime ==
  /\ editor.pc = "settime"
  /\ Assign([Self EXCEPT !.keyFrames_[editor.pos + 1].time_ = editor.frame.time_])
  /\ editor' = [editor EXCEPT !.pc = "setvalue"]
  /\ UNCHANGED <<lastCall, saved, sampler, capacity>>

(* ... and then value_ *)
RaceSetValue ==
  /\ editor.pc = "setvalue"
  /\ Assign([Self EXCEPT !.keyFrames_[editor.pos + 1].value_ = editor.frame.value_])
  /\ editor' = [editor EXCEPT !.pc = "dirty"]
  /\ UNCHANGED <<lastCall, saved, sampler, capacity>>

(* line 203 of SetKeyFrame, line 166 of SetInterpolationMethod and line    *)
(* 172 of SetSplineTension: the dirty flag is set and the call returns     *)
RaceMarkDirty ==
  /\ editor.pc = "dirty"
  /\ LET r == Returned(MarkDirty(Self), editor.rest, editor.events)
     IN Assign(r.obj) /\ editor' = r.editor
  /\ UNCHANGED <<lastCall, saved, sampler, capacity>>

(* line 171 of SetSplineTension *)
RaceSetSplineTension(tension) ==
  /\ EditorEnters
  /\ Assign([Self EXCEPT !.splineTension_ = tension])
  /\ editor' = [NoEdit EXCEPT !.pc = "dirty"]
  /\ UNCHANGED <<saved, capacity>>

(* lines 158-165 of SetInterpolationMethod *)
RaceSetInterpolationMethod(method) ==
  /\ EditorEnters
  /\ IF method = interpolationMethod_
     THEN UNCHANGED <<objVars, editor>>
     ELSE /\ Assign([Self EXCEPT !.interpolationMethod_ =
                                    IF IsIntegerType(valueType_) THEN IM_LINEAR ELSE method])
          /\ editor' = [NoEdit EXCEPT !.pc = "dirty"]
  /\ UNCHANGED <<saved, capacity>>

(* SetEventFrame, lines 208-227: it touches eventFrames_ only, which no    *)
(* sample reads                                                            *)
RaceSetEventFrame(time, eventType, eventData) ==
  /\ EditorEnters
  /\ Assign(DoSetEventFrame(Self, time, eventType, eventData))
  /\ UNCHANGED <<saved, editor, capacity>>

(* LoadXML, lines 81-83: the type is reset and the events are cleared;     *)
(* without a "keyframe" child the "eventframe" children follow at once     *)
RaceLoadXML(source) ==
  /\ EditorEnters
  /\ LET r == IF source.keyframe = <<>>
              THEN Returned(LoadXMLReset(Self), <<>>, source.eventframe)
              ELSE [obj |-> LoadXMLReset(Self),
                    editor |-> [NoEdit EXCEPT !.pc = "call", !.rest = source.keyframe,
                                              !.events = source.eventframe]]
     IN Assign(r.obj) /\ editor' = r.editor
  /\ UNCHANGED <<saved, capacity>>

(* lines 87-89 of LoadXML: SetKeyFrame is called with the next "keyframe"  *)
(* child                                                                   *)
RaceLoadKeyFrame ==
  /\ editor.pc = "call"
  /\ LET elem == Head(editor.rest)
         r == KeyFrameEntered(Self, capacity,
                              [time_ |-> elem.time,
                               value_ |-> [type |-> elem.type, v |-> elem.value]],
                              Tail(editor.rest), editor.events)
     IN Assign(r.obj) /\ editor' = r.editor
  /\ UNCHANGED <<lastCall, saved, sampler, capacity>>

(* keyframes offered to SetKeyFrame in the stepwise specification: float   *)
(* values, at time 0 the value 0 only                                      *)
RaceFrames ==
  {[time_ |-> time, value_ |-> MakeVariant(VAR_FLOAT, q)] :
     time \in RaceTimes, q \in 0..MaxVal}
  \ {[time_ |-> 0, value_ |-> MakeVariant(VAR_FLOAT, q)] : q \in 1..MaxVal}

(* types offered to SetValueType in the stepwise specification *)
RaceTypes == {VAR_VECTOR2, VAR_INTVECTOR2}

(* elements offered to LoadXML in the stepwise specification: one without  *)
(* children, one with a keyframe                                           *)
RaceSources ==
  {[keyframe |-> <<>>, eventframe |-> <<>>],
   [keyframe |-> <<KeyFrameElement([time_ |-> MaxRaceTime,
                                    value_ |-> MakeVariant(VAR_FLOAT, MaxVal)])>>,
    eventframe |-> <<>>]}

(* the stepwise specification: a track is sampled step by step while an    *)
(* editing call runs step by step.  The behaviour is followed until the    *)
(* calls of the MaxOverlaps-th overlap have returned                       *)
NextRace ==
  /\ Running
  /\ sampler.overlaps < MaxOverlaps \/ sampler.pc # "idle" \/ editor.pc # "idle"
  /\ \/ \E valueType \in RaceTypes : RaceSetValueType(valueType)
     \/ RaceStoreInterpolatable
     \/ RaceStoreInteger
     \/ RaceForceLinear
     \/ RaceDestruct
     \/ RaceShrink
     \/ \E frame \in RaceFrames :
          Len(keyFrames_) < MaxRaceKeys /\ RaceSetKeyFrame(frame.time_, frame.value_)
     \/ RaceFree
     \/ RaceSwitch
     \/ RacePush
     \/ RaceGrow
     \/ RaceMoveTime
     \/ RaceMoveValue
     \/ RaceSetTime
     \/ RaceSetValue
     \/ RaceMarkDirty
     \/ \E tension \in Tensions : RaceSetSplineTension(tension)
     \/ \E method \in Methods : RaceSetInterpolationMethod(method)
     \/ \E eventType \in CurveEventTypes :
          sampler.pc # "idle" /\ Len(eventFrames_) < MaxCurveEvents
            /\ RaceSetEventFrame(0, eventType, NoEventData)
     \/ \E source \in RaceSources : RaceLoadXML(source)
     \/ RaceLoadKeyFrame
     \/ \E scaledTime \in RaceTimes : RaceBegin(scaledTime)
     \/ RaceLoop
     \/ RaceElement
     \/ RaceCompare
     \/ RaceBranch
     \/ RaceIsInterpolatable
     \/ RaceMethod
     \/ RaceHoldElement
     \/ RaceHold
     \/ RaceBind1
     \/ RaceBind2
     \/ RaceTime1
     \/ RaceTime2
     \/ RaceParam
     \/ RaceType
     \/ RaceFirst
     \/ RaceBlend
     \/ RaceRead
     \/ RaceCheck
     \/ RaceValidMethod
     \/ RaceValidLinear
     \/ RaceValidAgain
     \/ RaceValidSpline
     \/ RaceSize
     \/ RaceArgument
     \/ RaceTangentType
     \/ RaceTangentFirst
     \/ RaceStore
     \/ RaceClean

SpecRace == Init /\ [][NextRace]_vars

(* the persistence specification: a curve is edited, saved at any point,   *)
(* edited further and loaded from the saved element                        *)
NextPersist ==
  /\ Running
  /\ \/ \E valueType \in SetTypes : SetValueType(valueType)
     \/ \E time \in Times, value \in KeyValues :
          Len(keyFrames_) < MaxXMLKeys /\ SetKeyFrame(time, value)
     \/ \E time \in EventTimes, eventType \in CurveEventTypes :
          Len(eventFrames_) < MaxCurveEvents /\ SetEventFrame(time, eventType, NoEventData)
     \/ Len(keyFrames_) <= MaxXMLKeys /\ Save
     \/ Len(keyFrames_) <= MaxXMLKeys /\ Load

SpecPersist == Init /\ [][NextPersist]_vars

(* ======================================================================= *)
(*                               properties                                *)
(* ======================================================================= *)
Sorted(frames) == \A i \in 1..(Len(frames) - 1) : frames[i].time_ <= frames[i + 1].time_

(* new is old with frame put after every entry of time <= frame.time_ and  *)
(* before every entry of greater time                                      *)
PlacedAfterEquals(old, new, frame) ==
  \E pos \in 0..Len(old) :
    /\ new = InsertAt(old, pos, frame)
    /\ \A i \in 0..(pos - 1) : At(old, i).time_ <= frame.time_
    /\ \A i \in pos..(Len(old) - 1) : At(old, i).time_ > frame.time_

(* C1: after any sequence of SetKeyFrame calls (mixed with every other     *)
(* operation), times in any order and duplicates allowed, keyFrames_ is    *)
(* sorted non-decreasing by time.                                          *)
C1_KeyFramesSorted == Sorted(keyFrames_)

(* a keyframe was just inserted before existing later ones, next to an     *)
(* entry of equal time                                                     *)
C1_Witness ==
  /\ lastCall.op = "SetKeyFrame" /\ lastCall.ok
  /\ Len(keyFrames_) = 3
  /\ lastCall.time < Back(keyFrames_).time_
  /\ keyFrames_[1].time_ = keyFrames_[2].time_

(* C3: SetKeyFrame of a value whose type differs from an already fixed     *)
(* valueType_ returns false and leaves every field of the object as it     *)
(* was: keyframes, beginTime_, endTime_, valueType_, the tangents and the  *)
(* dirty flag.                                                             *)
C3_MismatchRejectedUnchanged ==
  [][lastCall'.op = "SetKeyFrame" =>
       \A value \in KeyValues :
         (valueType_ # VAR_NONE /\ value.type # valueType_
            /\ SetKeyFrame(lastCall'.time, value))
           => (~lastCall'.ok /\ UNCHANGED objVars)]_vars

(* a rejected insertion into a track that holds keyframes and a built      *)
(* tangent cache                                                           *)
C3_Witness ==
  /\ lastCall.op = "SetKeyFrame" /\ ~lastCall.ok
  /\ keyFrames_ # <<>>
  /\ splineTangents_ # <<>>

(* C4: in both tracks a new entry goes after all existing entries of the   *)
(* same (or a smaller) time and before the first entry of a strictly       *)
(* greater time, so equal-time entries stay in insertion order.            *)
C4_TieBreakAfterEquals ==
  [][/\ \A time \in Times, value \in KeyValues :
          (SetKeyFrame(time, value) /\ lastCall'.ok
             /\ (value.type = valueType_ \/ keyFrames_ = <<>>))
            => PlacedAfterEquals(keyFrames_, keyFrames_', [time_ |-> time, value_ |-> value])
     /\ \A time \in EventTimes, eventType \in EventTypes :
          SetEventFrame(time, eventType, NoEventData)
            => PlacedAfterEquals(eventFrames_, eventFrames_',
                                 [time_ |-> time, eventType_ |-> eventType,
                                  eventData_ |-> NoEventData])]_vars

(* both tracks hold two different entries of one time followed by a later  *)
(* entry, and the last call inserted an event at the tied time             *)
C4_Witness ==
  /\ Len(keyFrames_) = 3
  /\ keyFrames_[1].time_ = keyFrames_[2].time_
  /\ keyFrames_[2].time_ < keyFrames_[3].time_
  /\ keyFrames_[1].value_ # keyFrames_[2].value_
  /\ Len(eventFrames_) = 3
  /\ eventFrames_[1].time_ = eventFrames_[2].time_
  /\ eventFrames_[2].time_ < eventFrames_[3].time_
  /\ eventFrames_[1].eventType_ # eventFrames_[2].eventType_
  /\ lastCall.op = "SetEventFrame"
  /\ lastCall.time = eventFrames_[1].time_

Sampled == lastCall.op = "UpdateAttributeValue"

StrictlySorted(frames) ==
  \A i \in 1..(Len(frames) - 1) : frames[i].time_ < frames[i + 1].time_

(* C2: a sample of a track with at least one keyframe at a time strictly   *)
(* before the first keyframe's time hands the sink the first keyframe's    *)
(* value, and at a time at or after the last keyframe's time the last      *)
(* keyframe's value, under both methods.  Stated for tracks of distinct    *)
(* times and samples that stay inside the vectors, where no division by    *)
(* zero and no undefined read takes part.                                  *)
C2_HoldAtBoundaries ==
  (Sampled /\ keyFrames_ # <<>> /\ StrictlySorted(keyFrames_) /\ ~lastCall.outOfRange) =>
    /\ (lastCall.time < keyFrames_[1].time_ => lastCall.value = keyFrames_[1].value_)
    /\ (lastCall.time >= Back(keyFrames_).time_ => lastCall.value = Back(keyFrames_).value_)

(* C5 as stated: a sample of a rotation track under IM_SPLINE at a time    *)
(* before the last keyframe (on a valid track, so that the tangents exist) *)
(* runs LOGERROR and hands the sink the empty Variant.                     *)
C5_RotationSplineIsError ==
  (Sampled /\ valueType_ = VAR_QUATERNION /\ interpolationMethod_ = IM_SPLINE
     /\ Len(keyFrames_) >= 3 /\ lastCall.time < Back(keyFrames_).time_)
    => (lastCall.logged /\ lastCall.value = EMPTY)

(* C6 as stated: right after a SetValueType that changes the type the      *)
(* tangent cache has size zero.                                            *)
C6_KindChangeEmptiesTangents ==
  [][lastCall'.op = "SetValueType" =>
       (valueType_' # valueType_ => Len(splineTangents_') = 0)]_vars

(* C6 amended: a SetValueType that changes the type leaves the tangent     *)
(* array and the dirty flag exactly as they were.                          *)
C6_KindChangeKeepsTangents ==
  [][lastCall'.op = "SetValueType" =>
       (valueType_' # valueType_ =>
          UNCHANGED <<splineTangents_, splineTangentsDirty_>>)]_vars

(* a type change emptied a track of three keyframes and the clean tangent  *)
(* array built for them is still there                                     *)
C6_Witness ==
  /\ lastCall.op = "SetValueType"
  /\ lastCall.sizeBefore = 3
  /\ keyFrames_ = <<>>
  /\ Len(splineTangents_) = 3
  /\ ~splineTangentsDirty_

(* C7: SetValueType with a type other than the current one leaves the      *)
(* keyframes empty and the bounds at M_INFINITY / -M_INFINITY; with the    *)
(* current type it changes nothing.                                        *)
C7_KindChangeClears ==
  [][lastCall'.op = "SetValueType" =>
       \A valueType \in SetTypes :
         SetValueType(valueType) =>
           IF valueType # valueType_
           THEN keyFrames_' = <<>> /\ beginTime_' = M_INFINITY /\ endTime_' = -M_INFINITY
           ELSE UNCHANGED objVars]_vars

(* a type change has just emptied a track that held keyframes *)
C7_Witness ==
  /\ lastCall.op = "SetValueType"
  /\ lastCall.sizeBefore > 0
  /\ keyFrames_ = <<>>
  /\ beginTime_ = M_INFINITY

(* C8: in every reachable state beginTime_ / endTime_ are the least and    *)
(* the greatest keyframe time, or M_INFINITY / -M_INFINITY when there is   *)
(* no keyframe.                                                            *)
C8_BoundsAreMinMax ==
  IF keyFrames_ = <<>>
  THEN beginTime_ = M_INFINITY /\ endTime_ = -M_INFINITY
  ELSE /\ \E i \in 1..Len(keyFrames_) : keyFrames_[i].time_ = beginTime_
       /\ \E i \in 1..Len(keyFrames_) : keyFrames_[i].time_ = endTime_
       /\ \A i \in 1..Len(keyFrames_) :
            beginTime_ <= keyFrames_[i].time_ /\ keyFrames_[i].time_ <= endTime_

(* an insertion has just lowered beginTime_ below the earlier keyframes *)
C8_Witness ==
  /\ lastCall.op = "SetKeyFrame" /\ lastCall.ok
  /\ Len(keyFrames_) = 3
  /\ lastCall.time = beginTime_
  /\ beginTime_ < keyFrames_[2].time_
  /\ keyFrames_[2].time_ < endTime_

(* C9: in every reachable state a track of type IntRect or IntVector2 has  *)
(* method IM_LINEAR.                                                       *)
C9_IntegerKindsLinear == IsIntegerType(valueType_) => interpolationMethod_ = IM_LINEAR

(* IM_SPLINE was just asked of an integer track that holds keyframes *)
C9_Witness ==
  /\ lastCall.op = "SetInterpolationMethod" /\ lastCall.arg = IM_SPLINE
  /\ IsIntegerType(valueType_)
  /\ keyFrames_ # <<>>

(* C10: a successful SetKeyFrame leaves the type fixed (not VAR_NONE) and  *)
(* every stored keyframe of that type; once keyframes are stored, a        *)
(* SetKeyFrame neither changes the type nor removes a stored keyframe.     *)
C10_FirstInsertFixesKind ==
  [][(lastCall'.op = "SetKeyFrame" /\ lastCall'.ok) =>
       /\ valueType_' # VAR_NONE
       /\ \A i \in 1..Len(keyFrames_') : keyFrames_'[i].value_.type = valueType_'
       /\ (keyFrames_ # <<>> =>
             /\ valueType_' = valueType_
             /\ Len(keyFrames_') = Len(keyFrames_) + 1
             /\ \A i \in 1..Len(keyFrames_) :
                  \E j \in 1..Len(keyFrames_') : keyFrames_'[j] = keyFrames_[i])]_vars

(* the indices of the entries of frames with beginTime <= time < endTime,  *)
(* ascending                                                               *)
InRange(frames, beginTime, endTime) ==
  LET hit(i) == beginTime <= At(frames, i).time_ /\ At(frames, i).time_ < endTime
      F[i \in 0..Len(frames)] ==
        IF i = 0 THEN <<>>
        ELSE IF hit(i - 1) THEN Append(F[i - 1], i - 1) ELSE F[i - 1]
  IN F[Len(frames)]

(* C11: GetEventFrames(beginTime, endTime) returns exactly the event frames *)
(* with beginTime <= time < endTime, each once, in ascending time order,   *)
(* for every event track built by SetEventFrame calls; the early exit      *)
(* drops no entry of the range.                                            *)
C11_QueryReturnsRange ==
  lastCall.op = "GetEventFrames" =>
    /\ lastCall.frames = InRange(eventFrames_, lastCall.beginTime, lastCall.endTime)
    /\ \A k \in 1..(Len(lastCall.frames) - 1) :
         At(eventFrames_, lastCall.frames[k]).time_
           <= At(eventFrames_, lastCall.frames[k + 1]).time_

(* a query skipped an entry before the range, returned two entries of one  *)
(* time and left the scan early at an entry at endTime                     *)
C11_Witness ==
  /\ lastCall.op = "GetEventFrames"
  /\ Len(eventFrames_) = 3
  /\ Len(lastCall.frames) = 2
  /\ eventFrames_[1].time_ = eventFrames_[2].time_
  /\ lastCall.frames = <<0, 1>>
  /\ eventFrames_[3].time_ = lastCall.endTime

(* C12: after LoadXML of the element saved from a curve x, whatever the    *)
(* loading curve held before, its keyframes, its events and its type equal *)
(* those of x, also when x has no keyframes.                               *)
C12_RoundTrip ==
  lastCall.op = "LoadXML" =>
    /\ keyFrames_ = saved.keyFrames_
    /\ eventFrames_ = saved.eventFrames_
    /\ valueType_ = saved.valueType_

(* C13: under IM_SPLINE, for a type with spline arithmetic and at least    *)
(* three keyframes of distinct times, a sample exactly at the time of a    *)
(* keyframe hands the sink that keyframe's value, whatever the tension.    *)
C13_SplineThroughControlPoints ==
  (Sampled /\ interpolationMethod_ = IM_SPLINE /\ SplineCase(valueType_)
     /\ Len(keyFrames_) >= 3 /\ StrictlySorted(keyFrames_)) =>
    \A i \in 1..Len(keyFrames_) :
      keyFrames_[i].time_ = lastCall.time =>
        (lastCall.value = keyFrames_[i].value_ /\ ~lastCall.logged /\ ~lastCall.outOfRange)

(* a float spline of three distinct times was sampled at its interior      *)
(* keyframe, whose tangent is not zero, under the tension 1                *)
C13_Witness ==
  /\ Sampled /\ interpolationMethod_ = IM_SPLINE /\ valueType_ = VAR_FLOAT
  /\ Len(keyFrames_) = 3 /\ StrictlySorted(keyFrames_)
  /\ lastCall.time = keyFrames_[2].time_
  /\ lastCall.value = keyFrames_[2].value_
  /\ splineTension_ = <<1, 1>>
  /\ Len(splineTangents_) = 3
  /\ splineTangents_[2].v[1] = <<1, 1>>

(* C14: in every reachable state IsValid returns true exactly when the     *)
(* method is IM_LINEAR with at least 2 keyframes or IM_SPLINE with at      *)
(* least 3 keyframes.                                                      *)
C14_IsValidThresholds ==
  lastCall.op = "IsValid" =>
    (lastCall.ok <=>
       \/ (interpolationMethod_ = IM_LINEAR /\ Len(keyFrames_) >= 2)
       \/ (interpolationMethod_ = IM_SPLINE /\ Len(keyFrames_) >= 3))

(* IsValid has just returned false for a spline track of two keyframes *)
C14_Witness ==
  /\ lastCall.op = "IsValid" /\ ~lastCall.ok
  /\ interpolationMethod_ = IM_SPLINE
  /\ Len(keyFrames_) = 2

(* the tangents the rebuild rule gives for a track: the scaled difference  *)
(* of the neighbours' values inside, zero at both ends                     *)
RuleTangents(frames, valueType, tension) ==
  [j \in 1..Len(frames) |->
     [type |-> valueType,
      v |-> IF j = 1 \/ j = Len(frames)
            THEN [c \in 1..Dim(valueType) |-> FInt(0)]
            ELSE [c \in 1..Dim(valueType) |->
                    FMul(FSub(frames[j + 1].value_.v[c], frames[j - 1].value_.v[c]),
                         tension)]]]

(* a sample that went through SplineInterpolation *)
SplineSampled ==
  /\ Sampled /\ interpolationMethod_ = IM_SPLINE /\ isInterpolatable_
  /\ BracketIndex(keyFrames_, lastCall.time) < Len(keyFrames_)

(* C15: in any sequence of whole operations, a spline sample of a track    *)
(* with at least 3 keyframes reads a tangent array that is the rebuild     *)
(* rule applied to the current keyframes and the current tension, one      *)
(* tangent per keyframe, and leaves the cache clean.                       *)
C15_CacheCoherent ==
  (SplineSampled /\ Len(keyFrames_) >= 3) =>
    /\ splineTangents_ = RuleTangents(keyFrames_, valueType_, splineTension_)
    /\ ~splineTangentsDirty_
    /\ ~lastCall.outOfRange

(* a float spline of three keyframes was sampled inside a bracket under    *)
(* the tension 1 and its interior tangent is (0 - 1) * 1                   *)
C15_Witness ==
  /\ SplineSampled /\ valueType_ = VAR_FLOAT /\ Len(keyFrames_) = 3
  /\ splineTension_ = <<1, 1>>
  /\ keyFrames_[1].value_.v[1] = <<1, 1>>
  /\ keyFrames_[3].value_.v[1] = <<0, 1>>
  /\ splineTangents_[2].v[1] = <<-1, 1>>

(* C16: a successful SetKeyFrame, a SetSplineTension and a                 *)
(* SetInterpolationMethod that changes the method set the dirty flag and   *)
(* leave the tangent array as it was; the flag goes from dirty to clean    *)
(* only in a sample whose rebuild leaves one tangent per keyframe; a       *)
(* rebuild attempted under IM_SPLINE with fewer than 3 keyframes leaves    *)
(* the flag dirty.                                                         *)
C16_DirtyLifeCycle ==
  [][/\ (\/ (lastCall'.op = "SetKeyFrame" /\ lastCall'.ok)
         \/ lastCall'.op = "SetSplineTension"
         \/ (lastCall'.op = "SetInterpolationMethod"
               /\ interpolationMethod_' # interpolationMethod_))
          => (splineTangentsDirty_' /\ splineTangents_' = splineTangents_)
     /\ (splineTangentsDirty_ /\ ~splineTangentsDirty_')
          => (/\ lastCall'.op = "UpdateAttributeValue"
              /\ Len(splineTangents_') = Len(keyFrames_')
              /\ keyFrames_' = keyFrames_)
     /\ (/\ lastCall'.op = "UpdateAttributeValue"
         /\ splineTangentsDirty_
         /\ interpolationMethod_ = IM_SPLINE /\ isInterpolatable_
         /\ BracketIndex(keyFrames_, lastCall'.time) < Len(keyFrames_)
         /\ Len(keyFrames_) < 3)
          => splineTangentsDirty_']_vars

(* a spline sample of a dirty track of two keyframes attempted the rebuild: *)
(* the array is empty and the flag still dirty                             *)
C16_Witness ==
  /\ SplineSampled
  /\ Len(keyFrames_) = 2
  /\ splineTangentsDirty_
  /\ splineTangents_ = <<>>
  /\ lastCall.outOfRange

(* C17: SetEventFrame leaves the keyframes, the type, the method, the      *)
(* tension, beginTime_, endTime_, the tangent array and the dirty flag     *)
(* unchanged; SetKeyFrame (accepted or rejected), SetValueType,            *)
(* SetInterpolationMethod, SetSplineTension and a sample leave the event   *)
(* frames unchanged.                                                       *)
C17_EventTrackIndependent ==
  [][/\ lastCall'.op = "SetEventFrame" =>
          UNCHANGED <<keyFrames_, valueType_, isInterpolatable_, interpolationMethod_,
                      splineTension_, beginTime_, endTime_, splineTangents_,
                      splineTangentsDirty_>>
     /\ lastCall'.op \in {"SetKeyFrame", "SetValueType", "SetInterpolationMethod",
                          "SetSplineTension", "UpdateAttributeValue"} =>
          UNCHANGED eventFrames_]_vars

(* an event was just inserted into a curve that holds three keyframes and  *)
(* a clean tangent array                                                   *)
C17_Witness ==
  /\ lastCall.op = "SetEventFrame"
  /\ eventFrames_ # <<>>
  /\ Len(keyFrames_) = 3
  /\ Len(splineTangents_) = 3
  /\ ~splineTangentsDirty_

(* C18: a sample of a track with at least one keyframe reads keyFrames_    *)
(* and, under IM_SPLINE, splineTangents_ only at indices below their size, *)
(* a spline track of exactly two keyframes included.                       *)
C18_SampleInRange ==
  (Sampled /\ keyFrames_ # <<>>) => ~lastCall.outOfRange

(* C19: whenever a sample interpolates (the bracket search stopped inside  *)
(* the track and the type is interpolatable), the two keyframes of the     *)
(* bracket have different times, so the divisor of the local parameter is  *)
(* not zero.                                                               *)
C19_NoZeroLengthSegment ==
  (Sampled /\ isInterpolatable_
     /\ BracketIndex(keyFrames_, lastCall.time) < Len(keyFrames_)) =>
    LET index == BracketIndex(keyFrames_, lastCall.time)
    IN At(keyFrames_, index - 1).time_ # At(keyFrames_, index).time_

(* a spline sample taken step by step has returned, no call has been       *)
(* entered since and no edit is under way                                  *)
SplineReadDone ==
  /\ lastCall.op = "UpdateAttributeValue" /\ lastCall.arg = IM_SPLINE
  /\ sampler.pc = "idle" /\ editor.pc = "idle"

(* the stepwise sample is in SplineInterpolation past the dirty check of   *)
(* line 327 and the rebuild, at lines 330-370                              *)
SplineReading ==
  /\ sampler.method = IM_SPLINE
  /\ sampler.pc \in {"bind1", "bind2", "time1", "time2", "param", "type", "first", "second"}

(* without an overlap the cache is sound: as long as no sample has         *)
(* overlapped an editing call, a spline sample of a track with at least 3  *)
(* keyframes of a type the spline handles leaves a clean tangent array     *)
(* that is the rebuild rule applied to the current keyframes and tension   *)
SoundWithoutOverlap ==
  (SplineReadDone /\ Len(keyFrames_) >= 3 /\ SplineCase(valueType_)
     /\ sampler.overlaps = 0) =>
    /\ splineTangents_ = RuleTangents(keyFrames_, valueType_, splineTension_)
    /\ ~splineTangentsDirty_

(* a step of the sample past the dirty check: the flag is not tested again *)
(* and the array is not rebuilt, whatever an edit has done to the flag,    *)
(* the keyframes or the tension since line 327; the sample goes on to its  *)
(* return with the array as it is                                          *)
SampleReadsOn ==
  (SplineReading /\ sampler'.pc # sampler.pc) =>
    /\ splineTangents_' = splineTangents_
    /\ splineTangentsDirty_' = splineTangentsDirty_
    /\ sampler'.pc = "idle" \/ SplineReading'

(* a step of an editing call while the sample is past the dirty check: a   *)
(* write to keyFrames_ or splineTension_ leaves the sample where it is and *)
(* the array as it was; when SetSplineTension (line 171) stores a tension  *)
(* that gives other tangents for a track of 3 or more keyframes, the array *)
(* the sample is reading no longer matches the keyframes and tension       *)
EditIsNotSeen ==
  (SplineReading /\ (keyFrames_' # keyFrames_ \/ splineTension_' # splineTension_)) =>
    /\ sampler'.pc = sampler.pc
    /\ splineTangents_' = splineTangents_
    /\ (/\ splineTension_' # splineTension_
        /\ Len(keyFrames_) >= 3 /\ SplineCase(valueType_)
        /\ splineTangents_ = RuleTangents(keyFrames_, valueType_, splineTension_)
        /\ RuleTangents(keyFrames_, valueType_, splineTension_') # splineTangents_)
         => splineTangents_' # RuleTangents(keyFrames_', valueType_', splineTension_')

(* C20: sampling while the curve is edited is unsafe, and only then.  The  *)
(* dirty flag is tested once (line 327): a SetKeyFrame or SetSplineTension *)
(* whose writes fall between the later steps of a spline sample changes    *)
(* the keyframes or the tension under it, and the sample reads on in a     *)
(* tangent array that no longer matches them; without an overlap every     *)
(* spline sample reads the array the rule gives.  C20_Witness is the       *)
(* reachable state such an interleaving ends in.                           *)
C20_UnsafeWhenInterleaved ==
  /\ []SoundWithoutOverlap
  /\ [][SampleReadsOn /\ EditIsNotSeen]_vars

(* an editing call ran between the steps of a spline sample of three       *)
(* keyframes; the sample cleared the dirty flag and read, inside the       *)
(* array's size, tangents that are not those of the current keyframes and  *)
(* tension                                                                 *)
C20_Witness ==
  /\ SplineReadDone
  /\ sampler.overlaps = 1
  /\ ~lastCall.crashed /\ ~lastCall.outOfRange
  /\ Len(keyFrames_) = 3 /\ SplineCase(valueType_)
  /\ Len(splineTangents_) = 3
  /\ ~splineTangentsDirty_
  /\ splineTangents_ # RuleTangents(keyFrames_, valueType_, splineTension_)

====
